---- MODULE Spec2Model ----
(***************************************************************************)
(* Model of the execution driver of parcels (ParticleSet.execute), the     *)
(* sliding three-snapshot window of lazily backed fields                   *)
(* (FieldSet.computeChunk, Field.__init__) and the periodic release of     *)
(* particles.                                                              *)
(*                                                                         *)
(* Times are 64-bit floats in the program.  The model keeps the finite     *)
(* values as integers, counted in units of 5e-6 s, and keeps the three     *)
(* non-finite floats as the distinguished values Inf, NInf and NaN with    *)
(* the IEEE rules the program relies on (inf*0 = nan, every comparison     *)
(* with nan is false).  In these units the event tolerance 1e-12 s is      *)
(* below one unit (|x| < tol iff x = 0) and the threshold 1e-5 s is two    *)
(* units.                                                                  *)
(***************************************************************************)
EXTENDS Integers, Sequences, FiniteSets, TLC

VARIABLES
    lazy,              \* U.dataDask is a dask array (fields are lazily backed)
    fieldOrder,        \* order in which FieldSet.fields lists the fields
    timeInd,           \* grid.timeInd, per grid
    gtime,             \* grid.time, the visible time axis, per grid
    advanced,          \* grid.advanced, per grid
    fdata,             \* field.data, per field: the backing slices it holds
    particles,         \* ParticleSet.particles
    repeatdt,          \* ParticleSet.repeatdt
    repeat_starttime,  \* ParticleSet.repeat_starttime
    pc,                \* position of execute
    dt,                \* execute's dt (after line 303)
    endtime,           \* execute's endtime (after resolution)
    outfile,           \* output_file is given
    outputdt,          \* execute's outputdt
    moviedt,           \* execute's moviedt
    starttime,         \* execute's _starttime
    time,              \* execute's time
    next_prelease,
    next_input,
    next_output,
    next_movie,
    args,              \* the arguments execute was called with
    log,               \* what execute has done so far, in order
    gset,              \* a FieldSet under construction: its GridSet and fields
    pfile,             \* a ParticleFile and the ParticleSet it is written from
    call               \* one call of a function of Field or of a kernel

driverVars ==
    <<lazy, fieldOrder, timeInd, gtime, advanced, fdata, particles, repeatdt,
      repeat_starttime, pc, dt, endtime, outfile, outputdt, moviedt,
      starttime, time, next_prelease, next_input, next_output, next_movie,
      args, log>>

\* the parts of the program that are looked at on their own
partVars == <<gset, pfile, call>>

vars == <<driverVars, partVars>>

gridVars == <<lazy, fieldOrder, timeInd, gtime, advanced, fdata>>
psetVars == <<particles, repeatdt, repeat_starttime>>
argVars == <<dt, endtime, outfile, outputdt, moviedt, starttime, args>>
nextVars == <<next_prelease, next_input, next_output, next_movie>>

----------------------------------------------------------------------------
(* Bounds of the model *)

\* number of snapshots of the backing arrays (Tfull)
NSnap == 5
\* the log keeps at most this many entries (a run that never ends stops logging)
MaxLog == 40

----------------------------------------------------------------------------
(* Floats *)

Inf == 500
NInf == 0 - Inf
NaN == 999
\* Python's None, for an argument that is not given
None == 998
\* tol = 1e-12 (below one time unit)
tol == 1
\* the 1e-5 of "endtime is equal to Particle.time" (two time units)
degenerate_tol == 2

IsNaN(x) == x = NaN
IsInf(x) == x = Inf \/ x = NInf

FNeg(a) == IF IsNaN(a) THEN NaN ELSE 0 - a

FAdd(a, b) ==
    IF IsNaN(a) \/ IsNaN(b) THEN NaN
    ELSE IF IsInf(a) THEN (IF IsInf(b) /\ b # a THEN NaN ELSE a)
    ELSE IF IsInf(b) THEN b
    ELSE a + b

FSub(a, b) == FAdd(a, FNeg(b))

FMul(a, b) ==
    IF IsNaN(a) \/ IsNaN(b) THEN NaN
    ELSE IF IsInf(a) \/ IsInf(b)
         THEN (IF a = 0 \/ b = 0 THEN NaN
               ELSE IF (a > 0) = (b > 0) THEN Inf ELSE NInf)
    ELSE a * b

FAbs(a) == IF IsNaN(a) THEN NaN ELSE IF a < 0 THEN 0 - a ELSE a

FLt(a, b) == ~IsNaN(a) /\ ~IsNaN(b) /\ a < b
FGt(a, b) == FLt(b, a)
FGe(a, b) == ~IsNaN(a) /\ ~IsNaN(b) /\ a >= b
FEq(a, b) == ~IsNaN(a) /\ ~IsNaN(b) /\ a = b

\* np.sign
sign(x) == IF x > 0 THEN 1 ELSE IF x < 0 THEN 0 - 1 ELSE 0

\* abs(a - b) < tol
Near(a, b) == FLt(FAbs(FSub(a, b)), tol)

\* Python's min and max of a non-empty list: the first item is kept unless a
\* later one compares strictly below (above) it, so a leading nan is returned
RECURSIVE PyMinFrom(_, _, _)
PyMinFrom(s, i, m) ==
    IF i > Len(s) THEN m
    ELSE PyMinFrom(s, i + 1, IF FLt(s[i], m) THEN s[i] ELSE m)

PyMin(s) == PyMinFrom(s, 2, s[1])

RECURSIVE PyMaxFrom(_, _, _)
PyMaxFrom(s, i, m) ==
    IF i > Len(s) THEN m
    ELSE PyMaxFrom(s, i + 1, IF FGt(s[i], m) THEN s[i] ELSE m)

PyMax(s) == PyMaxFrom(s, 2, s[1])

\* Python's s[a:b] on a sequence (0-based, negative indices count from the end)
PySlice(s, a, b) ==
    LET n == Len(s)
        Clamp(i) == IF i < 0 THEN 0 ELSE IF i > n THEN n ELSE i
        lo == Clamp(IF a < 0 THEN a + n ELSE a)
        hi == Clamp(IF b < 0 THEN b + n ELSE b)
    IN  [i \in 1..(IF hi > lo THEN hi - lo ELSE 0) |-> s[lo + i]]

\* Python's s[i] raises IndexError outside -n..n-1
IndexOk(s, i) == i >= 0 - Len(s) /\ i < Len(s)
PyIndex(s, i) == IF i < 0 THEN s[Len(s) + i + 1] ELSE s[i + 1]

----------------------------------------------------------------------------
(* Grids and fields *)

Grids == {"g0", "g1"}
FieldNames == {"U", "V", "temp"}

\* U and temp are declared against the same grid, V against another one
GridOf(f) == IF f = "V" THEN "g1" ELSE "g0"

\* the full time axis of a grid (grid.timeFull for a lazily backed grid)
TimeFull(g) == [i \in 1..NSnap |-> (IF g = "g0" THEN 2 ELSE 3) * (i - 1)]

\* the backing array of a field; a slice is named by its index in the array
Backing(f) == [i \in 1..NSnap |-> i - 1]

\* the orders in which FieldSet.fields (the values of a dict) may list the fields
FieldOrders == {<<"U", "V", "temp">>, <<"temp", "V", "U">>}

\* Field.__init__ on a dask array: timeFull keeps the whole axis, the grid shows
\* the first three snapshots and the field loads the first three slices
FieldInitTime(g, isLazy) == IF isLazy THEN PySlice(TimeFull(g), 0, 3) ELSE TimeFull(g)
FieldInitData(f, isLazy) == IF isLazy THEN PySlice(Backing(f), 0, 3) ELSE Backing(f)
FieldInitTimeInd(isLazy) == IF isLazy THEN 0 ELSE 0 - 1

\* the state computeChunk works on: the grids' timeInd, time and advanced, the
\* fields' data, nextTime, and whether an IndexError has been raised
ChunkState(ti, gt, adv, fd, nxt) ==
    [ti |-> ti, gt |-> gt, adv |-> adv, fd |-> fd, next |-> nxt, err |-> FALSE]

\* computeChunk, first call (U.grid.timeInd = -1): every grid shows the first
\* (signdt = 1) or the last three snapshots and every field loads them
ChunkFirstCall(cs, signdt) ==
    IF cs.ti[GridOf("U")] # 0 - 1 THEN cs
    ELSE [cs EXCEPT
            !.gt = [g \in Grids |->
                      IF signdt = 1 THEN PySlice(TimeFull(g), 0, 3)
                      ELSE PySlice(TimeFull(g), 0 - 3, Len(TimeFull(g)))],
            !.ti = [g \in Grids |->
                      IF signdt = 1 THEN 0 ELSE Len(TimeFull(g)) - 3],
            !.fd = [f \in FieldNames |->
                      IF signdt = 1 THEN PySlice(Backing(f), 0, 3)
                      ELSE PySlice(Backing(f), 0 - 3, Len(Backing(f)))]]

\* the test that makes a grid's window move: time is past (before) time[1]
MustAdvance(t, t1, signdt) ==
    IF signdt = 1 THEN FGt(FSub(t, t1), 0) ELSE FLt(FSub(t, t1), 0)

\* a grid is looked at only while grid.advanced = 0
GridPending(adv, g) == adv[g] = 0

\* AdvanceGrid with the boundary folded into nextTime only for a grid that moved
AdvanceGridMoved(cs, g, t, signdt) ==
    IF ~IndexOk(cs.gt[g], 1) THEN [cs EXCEPT !.err = TRUE]
    ELSE
      LET move == MustAdvance(t, PyIndex(cs.gt[g], 1), signdt)
          ti2  == IF move THEN cs.ti[g] + (IF signdt = 1 THEN 1 ELSE 0 - 1)
                  ELSE cs.ti[g]
          gt2  == IF move THEN PySlice(TimeFull(g), ti2, ti2 + 3) ELSE cs.gt[g]
          cs2  == [cs EXCEPT !.ti[g] = ti2, !.gt[g] = gt2,
                             !.adv[g] = IF move THEN 1 ELSE cs.adv[g]]
          edge == IF signdt = 1 THEN 2 ELSE 0
      IN  IF ~IndexOk(gt2, edge) THEN [cs2 EXCEPT !.err = TRUE]
          ELSE IF ~move THEN cs2
          ELSE [cs2 EXCEPT !.next =
                  IF signdt = 1 THEN PyMin(<<cs.next, PyIndex(gt2, edge)>>)
                  ELSE PyMax(<<cs.next, PyIndex(gt2, edge)>>)]

\* computeChunk, lines 365-377: move the window of grid g if time asks for it and
\* fold its boundary into nextTime; g.time[..] outside the axis raises IndexError
AdvanceGrid(cs, g, t, signdt) ==
    IF ~IndexOk(cs.gt[g], 1) THEN [cs EXCEPT !.err = TRUE]
    ELSE
      LET move == MustAdvance(t, PyIndex(cs.gt[g], 1), signdt)
          ti2  == IF move THEN cs.ti[g] + (IF signdt = 1 THEN 1 ELSE 0 - 1)
                  ELSE cs.ti[g]
          gt2  == IF move THEN PySlice(TimeFull(g), ti2, ti2 + 3) ELSE cs.gt[g]
          cs2  == [cs EXCEPT !.ti[g] = ti2, !.gt[g] = gt2,
                             !.adv[g] = IF move THEN 1 ELSE cs.adv[g]]
          edge == IF signdt = 1 THEN 2 ELSE 0
      IN  IF ~IndexOk(gt2, edge) THEN [cs2 EXCEPT !.err = TRUE]
          ELSE [cs2 EXCEPT !.next =
                  IF signdt = 1 THEN PyMin(<<cs.next, PyIndex(gt2, edge)>>)
                  ELSE PyMax(<<cs.next, PyIndex(gt2, edge)>>)]

\* computeChunk, lines 378-385: the field's window follows its grid; the slice
\* assignment is done before the new slice is read from the backing array
ShiftField(cs, f, signdt) ==
    LET d    == cs.fd[f]
        ti   == cs.ti[GridOf(f)]
        from == IF signdt = 1 THEN ti + 2 ELSE ti
        kept == IF signdt = 1 THEN <<d[2], d[3], d[3]>> ELSE <<d[1], d[1], d[2]>>
    IN  IF ~IndexOk(Backing(f), from)
        THEN [cs EXCEPT !.fd[f] = kept, !.err = TRUE]
        ELSE [cs EXCEPT !.fd[f] =
                IF signdt = 1 THEN <<d[2], d[3], PyIndex(Backing(f), from)>>
                ELSE <<PyIndex(Backing(f), from), d[1], d[2]>>]

\* computeChunk, the body of the loop over the fields for one field
ChunkField(cs, f, t, signdt) ==
    LET g   == GridOf(f)
        cs1 == IF GridPending(cs.adv, g) THEN AdvanceGrid(cs, g, t, signdt) ELSE cs
    IN  IF cs1.err THEN cs1
        ELSE IF cs1.adv[g] = 1 THEN ShiftField(cs1, f, signdt)
        ELSE cs1

RECURSIVE ChunkFields(_, _, _, _, _)
ChunkFields(cs, order, i, t, signdt) ==
    IF i > Len(order) \/ cs.err THEN cs
    ELSE CHOOSE r \in {ChunkFields(c, order, i + 1, t, signdt) :
                          c \in {ChunkField(cs, order[i], t, signdt)}} : TRUE

\* FieldSet.computeChunk(time, signdt) on the state cs; .next is the value returned
computeChunk(cs, isLazy, order, t, signdt) ==
    IF ~isLazy THEN [cs EXCEPT !.next = FMul(Inf, signdt)]
    ELSE
      LET cs1 == ChunkFirstCall(cs, signdt)
          cs2 == [cs1 EXCEPT !.adv = [g \in Grids |-> 0],
                             !.next = FMul(Inf, signdt)]
      IN  ChunkFields(cs2, order, 1, t, signdt)

----------------------------------------------------------------------------
(* ParticleSet *)

\* the particle times a ParticleSet is built with (NaN: time not given)
PTimes == {<<NaN, NaN>>, <<0, 0>>, <<2, 0>>, <<0, 2>>}
\* the repeatdt a ParticleSet is built with
RepeatDts == {None, 0, 2, 3}

\* Python truth of an optional number: None and 0 are false
Truthy(x) == x # None /\ x # 0

RECURSIVE AllClose(_, _, _)
AllClose(s, i, v) == i > Len(s) \/ (s[i] = v /\ AllClose(s, i + 1, v))

\* ParticleSet.__init__ raises when repeatdt is set and the particle times differ
\* from a time[0] that is neither None nor 0
CtorAccepts(rdt, ptimes) ==
    Truthy(rdt) =>
        /\ rdt > 0
        /\ ~(~IsNaN(ptimes[1]) /\ ptimes[1] # 0 /\ ~AllClose(ptimes, 1, ptimes[1]))

\* a particle: its time, the time it was built with (t0), the stored position it
\* was built from, the event time it was released at (None for the particles of
\* the constructor) and whether a kernel has been executed over it
Particle(t, src, born) ==
    [time |-> t, t0 |-> t, src |-> src, born |-> born, stepped |-> FALSE]

\* the particles of one ParticleSet(lon=repeatlon, ..., time=t)
Cohort(n, t, born) == [i \in 1..n |-> Particle(t, i, born)]

\* the number of positions kept in repeatlon, repeatlat and repeatdepth: one for
\* each particle the constructor was given
NRepeat(ps) == Cardinality({i \in 1..Len(ps) : ps[i].born = None})

----------------------------------------------------------------------------
(* ParticleSet.execute *)

Dts == {0 - 1, 0, 1}
Runtimes == {None, 0, 1, 4, 7}
Endtimes == {None, 3}
\* None: no output_file; otherwise output_file.outputdt
OutputDts == {None, 0 - 1, 0, 2, 3}
MovieDts == {None, 0, 3}

NoArgs == [runtime |-> None, endtime |-> None, dt |-> None,
           outputdt |-> None, moviedt |-> None]

Logged(l, ev, t, n) ==
    IF Len(l) < MaxLog THEN Append(l, [ev |-> ev, t |-> t, n |-> n]) ELSE l

\* the state before execute is called, for a ParticleSet built with particle
\* times out of ptimeSet
DriverInitFrom(ptimeSet) ==
    /\ lazy \in BOOLEAN
    /\ fieldOrder \in FieldOrders
    /\ (~lazy => fieldOrder = <<"U", "V", "temp">>)
    /\ timeInd = [g \in Grids |-> FieldInitTimeInd(lazy)]
    /\ gtime = [g \in Grids |-> FieldInitTime(g, lazy)]
    /\ advanced = [g \in Grids |-> 0]
    /\ fdata = [f \in FieldNames |-> FieldInitData(f, lazy)]
    /\ repeatdt \in RepeatDts
    /\ \E ptimes \in ptimeSet :
          /\ CtorAccepts(repeatdt, ptimes)
          /\ particles = [i \in 1..Len(ptimes) |-> Particle(ptimes[i], i, None)]
          /\ repeat_starttime =
                IF Truthy(repeatdt) /\ ~IsNaN(ptimes[1]) THEN ptimes[1] ELSE None
    /\ pc = "idle"
    /\ dt = 0
    /\ endtime = None
    /\ outfile = FALSE
    /\ outputdt = None
    /\ moviedt = None
    /\ starttime = NaN
    /\ time = NaN
    /\ next_prelease = NaN
    /\ next_input = NaN
    /\ next_output = NaN
    /\ next_movie = NaN
    /\ args = NoArgs
    /\ log = <<>>

DriverInit == DriverInitFrom(PTimes)

\* no FieldSet is being built, no ParticleFile is open, no function is called
NoPart == [op |-> "none"]

PartIdle == gset = NoPart /\ pfile = NoPart /\ call = NoPart

Init == DriverInit /\ PartIdle

\* lines 282-284: the assertions on runtime, outputdt and moviedt
ArgsAccepted(rt, odt, mdt) ==
    /\ rt = None \/ rt >= 0
    /\ odt = None \/ odt >= 0
    /\ mdt = None \/ mdt >= 0

\* lines 287-289: a particle without a time gets the first (dt >= 0) or the last
\* entry of U.grid.time
DefaultTime(d, utime) == IF d >= 0 THEN PyIndex(utime, 0) ELSE PyIndex(utime, 0 - 1)

SetTimeDefaults(ps, d, utime) ==
    [i \in 1..Len(ps) |->
        IF IsNaN(ps[i].time) THEN [ps[i] EXCEPT !.time = DefaultTime(d, utime)]
        ELSE ps[i]]

\* BothGiven without the check of line 292: either argument alone decides
BothGivenNever(rt, et) == FALSE

\* line 292: both runtime and endtime are given
BothGiven(rt, et) == rt # None /\ et # None

\* line 294
StartTime(ps, d) ==
    LET ts == [i \in 1..Len(ps) |-> ps[i].time]
    IN  IF d >= 0 THEN PyMin(ts) ELSE PyMax(ts)

\* lines 297-300
EndTime(rt, et, d, start, utime) ==
    IF rt # None THEN FAdd(start, FMul(rt, sign(d)))
    ELSE IF et = None THEN (IF d >= 0 THEN PyIndex(utime, 0 - 1) ELSE PyIndex(utime, 0))
    ELSE et

\* line 302: the kernels are executed once, without incrementing time
Degenerate(rt, et, d, start) ==
    \/ FLt(FAbs(FSub(et, start)), degenerate_tol)
    \/ d = 0
    \/ rt = 0

\* line 323 and 325
FirstRelease(rdt, rstart, t, d) ==
    IF Truthy(rdt)
    THEN FAdd(rstart, FMul(FMul((FAbs(FSub(t, rstart)) \div rdt) + 1, rdt), sign(d)))
    ELSE FMul(Inf, sign(d))

\* lines 326 and 327: the first tick of an interval
FirstTick(t, interval, d) == FAdd(t, FMul(interval, sign(d)))

\* lines 267-328 of execute: the argument checks, the defaults, the first write
\* and the first computeChunk
Execute(rt, et, d, odt, mdt) ==
    /\ pc = "idle"
    /\ args' = [runtime |-> rt, endtime |-> et, dt |-> d,
                outputdt |-> odt, moviedt |-> mdt]
    /\ LET utime  == gtime[GridOf("U")]
           ps     == SetTimeDefaults(particles, d, utime)
           start  == StartTime(ps, d)
           rstart == IF repeatdt # None /\ repeat_starttime = None
                     THEN start ELSE repeat_starttime
           end0   == EndTime(rt, et, d, start, utime)
           degen  == Degenerate(rt, end0, d, start)
           d1     == IF degen THEN 0 ELSE d
           end1   == IF degen THEN start ELSE end0
           odt1   == IF odt = None THEN Inf ELSE odt
           mdt1   == IF mdt = None THEN Inf ELSE mdt
           log1   == IF odt # None THEN Logged(log, "write_first", start, Len(ps))
                     ELSE log
           log2   == IF Truthy(mdt) THEN Logged(log1, "show_first", start, Len(ps))
                     ELSE log1
           log3   == IF lazy THEN Logged(log2, "chunk_first", start, 0) ELSE log2
       IN  \E cs \in {computeChunk(
                           ChunkState(timeInd, gtime, advanced, fdata, NaN),
                           lazy, fieldOrder, start, sign(d1))} :
           IF ~ArgsAccepted(rt, odt, mdt)
           THEN /\ pc' = "error"
                /\ UNCHANGED <<gridVars, psetVars, nextVars, dt, endtime, outfile,
                               outputdt, moviedt, starttime, time, log>>
           ELSE IF BothGiven(rt, et) \/ (repeatdt # None /\ ~Truthy(repeatdt))
           THEN /\ pc' = "error"
                /\ particles' = ps
                /\ UNCHANGED <<gridVars, repeatdt, repeat_starttime, nextVars, dt,
                               endtime, outfile, outputdt, moviedt, starttime, time,
                               log>>
           ELSE /\ particles' = ps
                /\ repeat_starttime' = rstart
                /\ starttime' = start
                /\ dt' = d1
                /\ endtime' = end1
                /\ outfile' = (odt # None)
                /\ outputdt' = odt1
                /\ moviedt' = mdt1
                /\ time' = start
                /\ next_prelease' = FirstRelease(repeatdt, rstart, start, d1)
                /\ next_output' = FirstTick(start, odt1, d1)
                /\ next_movie' = FirstTick(start, mdt1, d1)
                /\ timeInd' = cs.ti
                /\ gtime' = cs.gt
                /\ advanced' = cs.adv
                /\ fdata' = cs.fd
                /\ log' = log3
                /\ next_input' = IF cs.err THEN next_input ELSE cs.next
                /\ pc' = IF cs.err THEN "error" ELSE "loop"
                /\ UNCHANGED <<lazy, fieldOrder, repeatdt>>

\* AfterStep with the output written before the cohort is added
AfterStepOutputFirst(p) ==
    CASE p = "kernel"  -> "output"
      [] p = "output"  -> "release"
      [] p = "release" -> "chunk"
      [] p = "chunk"   -> "movie"
      [] p = "movie"   -> "loop"

\* the order of the statements of the loop body, lines 336-352
AfterStep(p) ==
    CASE p = "kernel"  -> "release"
      [] p = "release" -> "chunk"
      [] p = "chunk"   -> "output"
      [] p = "output"  -> "movie"
      [] p = "movie"   -> "loop"

\* line 331: the test of the while loop
LoopCondition(t, e, d) ==
    \/ (FLt(t, e) /\ d > 0)
    \/ (FGt(t, e) /\ d < 0)
    \/ d = 0

\* NextEventTime without endtime among the candidates
NextEventTimeNoEnd(d, np, ni, no, nm, e) ==
    IF d > 0 THEN PyMin(<<np, ni, no, nm>>) ELSE PyMax(<<np, ni, no, nm>>)

\* lines 332-335: the next event time
NextEventTime(d, np, ni, no, nm, e) ==
    IF d > 0 THEN PyMin(<<np, ni, no, nm, e>>) ELSE PyMax(<<np, ni, no, nm, e>>)

LoopTest ==
    /\ pc = "loop"
    /\ IF LoopCondition(time, endtime, dt)
       THEN /\ time' = NextEventTime(dt, next_prelease, next_input, next_output,
                                     next_movie, endtime)
            /\ pc' = "kernel"
       ELSE /\ pc' = "final"
            /\ UNCHANGED time
    /\ UNCHANGED <<gridVars, psetVars, argVars, nextVars, log>>

\* Kernel.execute(pset, endtime=t, dt=d): every particle is integrated in steps of
\* dt until its time reaches t; with dt = 0 the kernel runs once and no time moves
KernelRun(ps, t, d) ==
    [i \in 1..Len(ps) |->
        [ps[i] EXCEPT
            !.stepped = TRUE,
            !.time = IF (d > 0 /\ FLt(ps[i].time, t)) \/ (d < 0 /\ FGt(ps[i].time, t))
                     THEN t ELSE ps[i].time]]

\* line 336
KernelExecute ==
    /\ pc = "kernel"
    /\ particles' = KernelRun(particles, time, dt)
    /\ log' = Logged(log, "kernel", time, Len(particles))
    /\ pc' = AfterStep("kernel")
    /\ UNCHANGED <<gridVars, repeatdt, repeat_starttime, argVars, nextVars, time>>

\* the test of lines 337, 342, 344 and 348: the event time is a tick
Due(t, tick) == Near(t, tick)

\* lines 341, 347 and 350: the tick after this one
NextTick(tick, interval, d) == FAdd(tick, FMul(interval, sign(d)))

\* lines 337-341
Release ==
    /\ pc = "release"
    /\ IF Due(time, next_prelease)
       THEN /\ particles' = particles \o Cohort(NRepeat(particles), time, time)
            /\ next_prelease' = NextTick(next_prelease, repeatdt, dt)
            /\ log' = Logged(log, "release", time, NRepeat(particles))
       ELSE UNCHANGED <<particles, next_prelease, log>>
    /\ pc' = AfterStep("release")
    /\ UNCHANGED <<gridVars, repeatdt, repeat_starttime, argVars, time,
                   next_input, next_output, next_movie>>

\* lines 342-343
InputChunk ==
    /\ pc = "chunk"
    /\ IF Due(time, next_input)
       THEN \E cs \in {computeChunk(
                         ChunkState(timeInd, gtime, advanced, fdata, next_input),
                         lazy, fieldOrder, time, sign(dt))} :
                /\ timeInd' = cs.ti
                /\ gtime' = cs.gt
                /\ advanced' = cs.adv
                /\ fdata' = cs.fd
                /\ next_input' = IF cs.err THEN next_input ELSE cs.next
                /\ log' = Logged(log, "chunk", time, 0)
                /\ pc' = IF cs.err THEN "error" ELSE AfterStep("chunk")
       ELSE /\ pc' = AfterStep("chunk")
            /\ UNCHANGED <<timeInd, gtime, advanced, fdata, next_input, log>>
    /\ UNCHANGED <<lazy, fieldOrder, psetVars, argVars, time,
                   next_prelease, next_output, next_movie>>

\* lines 344-347
Output ==
    /\ pc = "output"
    /\ IF Due(time, next_output)
       THEN /\ log' = IF outfile THEN Logged(log, "write_tick", time, Len(particles))
                      ELSE log
            /\ next_output' = NextTick(next_output, outputdt, dt)
       ELSE UNCHANGED <<log, next_output>>
    /\ pc' = AfterStep("output")
    /\ UNCHANGED <<gridVars, psetVars, argVars, time,
                   next_prelease, next_input, next_movie>>

\* lines 348-352
Movie ==
    /\ pc = "movie"
    /\ IF Due(time, next_movie)
       THEN /\ log' = Logged(log, "show", time, Len(particles))
            /\ next_movie' = NextTick(next_movie, moviedt, dt)
       ELSE UNCHANGED <<log, next_movie>>
    /\ pc' = IF dt = 0 THEN "final" ELSE AfterStep("movie")
    /\ UNCHANGED <<gridVars, psetVars, argVars, time,
                   next_prelease, next_input, next_output>>

\* lines 354-355
FinalWrite ==
    /\ pc = "final"
    /\ log' = IF outfile THEN Logged(log, "write_final", time, Len(particles))
              ELSE log
    /\ pc' = "done"
    /\ UNCHANGED <<gridVars, psetVars, argVars, nextVars, time>>

\* one statement of the body of execute after its set-up
LoopStep ==
    /\ \/ LoopTest
       \/ KernelExecute
       \/ Release
       \/ InputChunk
       \/ Output
       \/ Movie
       \/ FinalWrite
    /\ UNCHANGED partVars

Next ==
    \/ /\ \E rt \in Runtimes, et \in Endtimes, d \in Dts,
             odt \in OutputDts, mdt \in MovieDts : Execute(rt, et, d, odt, mdt)
       /\ UNCHANGED partVars
    \/ LoopStep

Spec == Init /\ [][Next]_vars

\* a ParticleSet built at time 0 that repeats every 2
LiveInit ==
    /\ Init
    /\ repeatdt = 2
    /\ \A i \in 1..Len(particles) : particles[i].t0 = 0

\* execute is one thread that runs until it returns or raises: once called, its
\* next statement is executed
FairSpec == LiveInit /\ [][Next]_vars /\ WF_vars(LoopStep)

\* particles built at the last snapshot time of U's grid or one time unit
\* before it, over lazily backed fields
LateTimes ==
    LET last == PyIndex(TimeFull(GridOf("U")), 0 - 1)
    IN  {<<last, last>>, <<last - 1, last - 1>>, <<last - 1, last>>}

LateInit ==
    /\ DriverInitFrom(LateTimes)
    /\ lazy
    /\ PartIdle

LateSpec == LateInit /\ [][Next]_vars

----------------------------------------------------------------------------
(* FieldSet construction and the GridSet *)

\* the driver at rest: an in-memory fieldset and a set of two particles at time
\* 0 that does not repeat, execute not called
DriverIdle ==
    /\ DriverInit
    /\ ~lazy
    /\ repeatdt = None
    /\ \A i \in 1..Len(particles) : particles[i].t0 = 0

\* the grid objects a test builds and the geometries (lon, lat, depth, time)
\* they can have
GridObjs == 1..3
Geoms == {"g0", "g1"}

\* FieldSet.__init__ adds U, then V, then the fields of the dictionary
AddOrder == <<"U", "V", "temp">>

\* GridSet.add_grid(field): the field is bound to the first grid of the set with
\* its grid's geometry; if there is none its own grid joins the set
add_grid(gs, f) ==
    LET own  == gs.given[f]
        same == {i \in 1..Len(gs.grids) : gs.geom[gs.grids[i]] = gs.geom[own]}
    IN  IF same = {}
        THEN [gs EXCEPT !.grids = Append(gs.grids, own), !.grid[f] = own]
        ELSE [gs EXCEPT !.grid[f] =
                gs.grids[CHOOSE i \in same : \A j \in same : i <= j]]

\* add_field without the call of gridset.add_grid: the field keeps its grid
add_field_unregistered(gs, f) ==
    [gs EXCEPT !.fields = Append(gs.fields, f), !.grid[f] = gs.given[f]]

\* FieldSet.add_field: setattr(self, field.name, field), gridset.add_grid(field)
add_field(gs, f) ==
    add_grid([gs EXCEPT !.fields = Append(gs.fields, f)], f)

\* FieldSet(U, V, fields) is called with fields built on the grid objects given
NewFieldSet(geom, given) ==
    [op |-> "fieldset", geom |-> geom, given |-> given,
     grid |-> [f \in FieldNames |-> 0], grids |-> <<>>, fields |-> <<>>]

GridInit ==
    /\ DriverIdle
    /\ pfile = NoPart
    /\ call = NoPart
    /\ \E geom \in [GridObjs -> Geoms], given \in [FieldNames -> GridObjs] :
          gset = NewFieldSet(geom, given)

\* FieldSet.__init__: the next field is added
AddField ==
    /\ gset.op = "fieldset"
    /\ Len(gset.fields) < Len(AddOrder)
    /\ gset' = add_field(gset, AddOrder[Len(gset.fields) + 1])
    /\ UNCHANGED <<driverVars, pfile, call>>

GridNext == AddField

GridSpec == GridInit /\ [][GridNext]_vars

----------------------------------------------------------------------------
(* ParticleFile, type 'array' *)

\* particle ids run from 1 to MaxId; a ParticleSet holds at most MaxSize of them
MaxId == 3
MaxSize == 3
\* at most MaxObs observations are written
MaxObs == 2
WriteTimes == {0, 1}

RECURSIVE SeqMax(_, _)
\* max([p.id for p in pset]) over the entries from i on
SeqMax(s, i) ==
    IF i = Len(s) THEN s[i]
    ELSE LET m == SeqMax(s, i + 1) IN IF s[i] > m THEN s[i] ELSE m

SeqSet(s) == {s[i] : i \in 1..Len(s)}

\* the ParticleSets a file can be opened for: distinct ids in any order (sets
\* are joined with add, line 197, and reduced with remove, line 211)
PSets ==
    {s \in UNION {[1..n -> 1..MaxId] : n \in 1..MaxSize} :
        \A i \in 1..Len(s), j \in 1..Len(s) : i # j => s[i] # s[j]}

\* ParticleFile.__init__, type 'array': the trajectory variable takes the ids
\* of the set in the order of the set
NewParticleFile(ps) ==
    [op |-> "file", id |-> ps, pset |-> ps, added |-> {},
     lasttime_written |-> None, idx |-> 0, obs |-> <<>>,
     last |-> [call |-> "init", res |-> "ok"]]

\* np.in1d(self.id[:], pids): the rows of the file whose id is in the set, in
\* the order of the rows
RECURSIVE RowsOf(_, _, _)
RowsOf(id, pids, i) ==
    IF i > Len(id) THEN <<>>
    ELSE (IF id[i] \in pids THEN <<i>> ELSE <<>>) \o RowsOf(id, pids, i + 1)

\* lines 159-164: values[k], the value of the k-th particle of the set, is
\* stored in row inds[k]; an untouched row keeps the fill value (0)
RowValues(id, inds, ps) ==
    [r \in 1..Len(id) |->
        IF \E k \in 1..Len(inds) : inds[k] = r
        THEN ps[CHOOSE k \in 1..Len(inds) : inds[k] = r]
        ELSE 0]

\* line 149: the largest id of the set is compared with the last id of the file
IdsIncreased(pf) == SeqMax(pf.pset, 1) > pf.id[Len(pf.id)]

\* write without the test of line 141 on the time written last
write_again(pf, t) ==
    LET pf1  == [pf EXCEPT !.lasttime_written = t]
        inds == RowsOf(pf.id, SeqSet(pf.pset), 1)
    IN  IF Len(pf.pset) = 0
        THEN [pf1 EXCEPT !.idx = pf.idx + 1,
                         !.obs = Append(pf.obs, [t |-> t,
                                     row |-> [r \in 1..Len(pf.id) |-> 0]]),
                         !.last = [call |-> "write", res |-> "empty"]]
        ELSE IF IdsIncreased(pf)
        THEN [pf1 EXCEPT !.last = [call |-> "write", res |-> "exit"]]
        ELSE IF Len(inds) # Len(pf.pset)
        THEN [pf1 EXCEPT !.last = [call |-> "write", res |-> "raised"]]
        ELSE [pf1 EXCEPT !.idx = pf.idx + 1,
                         !.obs = Append(pf.obs, [t |-> t,
                                     row |-> RowValues(pf.id, inds, pf.pset)]),
                         !.last = [call |-> "write", res |-> "recorded"]]

\* ParticleFile.write(pset, time), type 'array', write_ondelete False
write(pf, t) ==
    IF pf.lasttime_written = t
    THEN [pf EXCEPT !.last = [call |-> "write", res |-> "skipped"]]
    ELSE
      LET pf1  == [pf EXCEPT !.lasttime_written = t]
          inds == RowsOf(pf.id, SeqSet(pf.pset), 1)
      IN  IF Len(pf.pset) = 0
          THEN [pf1 EXCEPT !.idx = pf.idx + 1,
                           !.obs = Append(pf.obs, [t |-> t,
                                       row |-> [r \in 1..Len(pf.id) |-> 0]]),
                           !.last = [call |-> "write", res |-> "empty"]]
          ELSE IF IdsIncreased(pf)
          THEN [pf1 EXCEPT !.last = [call |-> "write", res |-> "exit"]]
          ELSE IF Len(inds) # Len(pf.pset)
          THEN [pf1 EXCEPT !.last = [call |-> "write", res |-> "raised"]]
          ELSE [pf1 EXCEPT !.idx = pf.idx + 1,
                           !.obs = Append(pf.obs, [t |-> t,
                                       row |-> RowValues(pf.id, inds, pf.pset)]),
                           !.last = [call |-> "write", res |-> "recorded"]]

FileInit ==
    /\ DriverIdle
    /\ gset = NoPart
    /\ call = NoPart
    /\ \E ps \in PSets : pfile = NewParticleFile(ps)

\* the run goes on: write has neither exited nor raised
FileOpen == pfile.op = "file" /\ pfile.last.res \notin {"exit", "raised"}

\* ParticleSet.add: the particle joins the end of the set
PsetAdd(p) ==
    /\ FileOpen
    /\ Len(pfile.pset) < MaxSize
    /\ p \notin SeqSet(pfile.pset)
    /\ pfile' = [pfile EXCEPT !.pset = Append(pfile.pset, p),
                              !.added = pfile.added \cup {p},
                              !.last = [call |-> "add", res |-> "ok"]]
    /\ UNCHANGED <<driverVars, gset, call>>

\* ParticleSet.remove(i)
PsetRemove(i) ==
    /\ FileOpen
    /\ i \in 1..Len(pfile.pset)
    /\ pfile' = [pfile EXCEPT
                    !.pset = SubSeq(pfile.pset, 1, i - 1)
                             \o SubSeq(pfile.pset, i + 1, Len(pfile.pset)),
                    !.added = pfile.added \ {pfile.pset[i]},
                    !.last = [call |-> "remove", res |-> "ok"]]
    /\ UNCHANGED <<driverVars, gset, call>>

FileWrite(t) ==
    /\ FileOpen
    /\ pfile.idx < MaxObs
    /\ pfile' = write(pfile, t)
    /\ UNCHANGED <<driverVars, gset, call>>

FileNext ==
    \/ \E p \in 1..MaxId : PsetAdd(p)
    \/ \E i \in 1..MaxSize : PsetRemove(i)
    \/ \E t \in WriteTimes : FileWrite(t)

FileSpec == FileInit /\ [][FileNext]_vars

----------------------------------------------------------------------------
(* Field sampling in tm *)

\* a time axis has at most MaxT snapshots, at times 0..MaxTime
MaxT == 3
MaxTime == 3
\* sampling times reach SampleSpan beyond the axis on either side, and shifts
\* run over -MaxShift..MaxShift periods
SampleSpan == 3
MaxShift == 2
DataVals == {1, 3}

TimeAxes ==
    {s \in UNION {[1..n -> 0..MaxTime] : n \in 1..MaxT} :
        \A i \in 1..(Len(s) - 1) : s[i] < s[i + 1]}

\* Field.__init__: time_periodic switches time extrapolation off (line 246);
\* data[i] is the value of the spatially uniform snapshot i
TimeFields ==
    {[time |-> t, data |-> d, time_periodic |-> p, allow_time_extrapolation |-> e] :
        t \in TimeAxes, d \in UNION {[1..n -> DataVals] : n \in 1..MaxT},
        p \in BOOLEAN, e \in BOOLEAN} 

SampleTimes == (0 - SampleSpan)..(MaxTime + SampleSpan)
Shifts == (0 - MaxShift)..MaxShift

RECURSIVE GCD(_, _)
GCD(a, b) == IF b = 0 THEN a ELSE GCD(b, a % b)
Abs(a) == IF a < 0 THEN 0 - a ELSE a
\* the number n/d
Frac(n, d) ==
    LET g == GCD(Abs(n), Abs(d))
        sg == IF d < 0 THEN 0 - 1 ELSE 1
    IN  <<(sg * n) \div g, (sg * d) \div g>>

\* self.grid.time <= time
TimeLe(t, tm) == [i \in 1..Len(t) |-> t[i] <= tm]
\* numpy's argmin of a boolean array: the first False, 0 when there is none
ArgMin(b) ==
    IF \E i \in 1..Len(b) : ~b[i]
    THEN (CHOOSE i \in 1..Len(b) : ~b[i] /\ \A j \in 1..(i - 1) : b[j]) - 1
    ELSE 0
\* time_index.argmin(), the snapshot after the given time
IndexAbove(b) == ArgMin(b)
\* time_index.argmin() - 1 if time_index.any() else 0
IndexBelow(b) == IF \E i \in 1..Len(b) : b[i] THEN ArgMin(b) - 1 ELSE 0
NoErr(ti, periods) == [err |-> "none", ti |-> ti, periods |-> periods]
Raised(e) == [err |-> e, ti |-> 0, periods |-> 0]
\* no value sampled
NoVal == [err |-> "none", val |-> <<0, 1>>]

\* time_index without the periodic branch (lines 755-762)
time_index_hold(f, tm) ==
    LET t == f.time
        b == TimeLe(t, tm)
    IN  IF \A i \in 1..Len(t) : b[i] THEN NoErr(Len(t) - 1, 0)
        ELSE NoErr(IndexBelow(b), 0)

\* Field.time_index(time)
time_index(f, tm) ==
    LET t == f.time
        T == Len(t)
        P == t[T] - t[1]
        b == TimeLe(t, tm)
        all == \A i \in 1..T : b[i]
        none == \A i \in 1..T : ~b[i]
    IN  IF ~f.time_periodic /\ ~f.allow_time_extrapolation
           /\ (tm < t[1] \/ tm > t[T])
        THEN Raised("TimeExtrapolationError")
        ELSE IF f.time_periodic
        THEN IF all \/ none
             THEN IF P = 0 THEN Raised("ZeroDivisionError")
                  ELSE LET periods == (tm - t[1]) \div P
                       IN  NoErr(IndexBelow(TimeLe(t, tm - periods * P)), periods)
             ELSE NoErr(IndexBelow(b), 0)
        ELSE IF all THEN NoErr(T - 1, 0)
        ELSE NoErr(IndexBelow(b), 0)

\* Field.eval(time, x, y, z) at a point inside the grid: spatial_interpolation
\* of snapshot ti gives data[ti]
eval(f, time0) ==
    LET t == f.time
        T == Len(t)
        r == time_index(f, time0)
        tm == time0 - r.periods * (t[T] - t[1])
    IN  IF r.err # "none" THEN [err |-> r.err, val |-> <<0, 1>>]
        ELSE IF r.ti < T - 1 /\ tm > PyIndex(t, r.ti)
        THEN LET f0 == PyIndex(f.data, r.ti)
                 f1 == PyIndex(f.data, r.ti + 1)
                 t0 == PyIndex(t, r.ti)
                 t1 == PyIndex(t, r.ti + 1)
             IN  [err |-> "none",
                  val |-> Frac(f0 * (t1 - t0) + (f1 - f0) * (tm - t0), t1 - t0)]
        ELSE [err |-> "none", val |-> Frac(PyIndex(f.data, r.ti), 1)]

FieldInit ==
    /\ DriverIdle
    /\ gset = NoPart
    /\ pfile = NoPart
    /\ \E f \in TimeFields :
          /\ Len(f.data) = Len(f.time)
          /\ f.time_periodic => ~f.allow_time_extrapolation
          /\ call = [op |-> "field", fld |-> f, fn |-> "init", time |-> 0,
                     periods |-> 0, idx |-> NoErr(0, 0),
                     val |-> NoVal, shifted |-> NoVal]

\* field.time_index(time)
TimeIndexCall(tm) ==
    /\ call.op = "field"
    /\ call' = [call EXCEPT !.fn = "time_index", !.time = tm, !.periods = 0,
                            !.idx = time_index(call.fld, tm),
                            !.val = NoVal, !.shifted = NoVal]
    /\ UNCHANGED <<driverVars, gset, pfile>>

\* field.eval(time, x, y, z) and field.eval(time + k * P, x, y, z)
EvalCall(tm, k) ==
    /\ call.op = "field"
    /\ LET t == call.fld.time
           P == t[Len(t)] - t[1]
       IN  call' = [call EXCEPT !.fn = "eval", !.time = tm, !.periods = k,
                                !.idx = NoErr(0, 0),
                                !.val = eval(call.fld, tm),
                                !.shifted = eval(call.fld, tm + k * P)]
    /\ UNCHANGED <<driverVars, gset, pfile>>

FieldNext ==
    \/ \E tm \in SampleTimes : TimeIndexCall(tm)
    \/ \E tm \in SampleTimes, k \in Shifts : EvalCall(tm, k)

FieldSpec == FieldInit /\ [][FieldNext]_vars

----------------------------------------------------------------------------
(* Field sampling in space: index search *)

\* grid coordinates are 0..MaxCoord; a point is sampled up to one unit beyond
MaxCoord == 3
GTypes == {"RectilinearZGrid", "RectilinearSGrid", "CurvilinearZGrid", "CurvilinearSGrid"}
\* strictly increasing axes with lo..hi nodes
Axes(lo, hi) ==
    {s \in UNION {[1..n -> 0..MaxCoord] : n \in lo..hi} :
        \A i \in 1..(Len(s) - 1) : s[i] < s[i + 1]}
LatAxes == {<<0, 2>>, <<1, 2, 3>>}
DepthAxes == {<<0>>, <<1, 3>>, <<0, 1, 3>>}
\* flat meshes; a curvilinear grid has lon[y, x] = lon[x] and lat[y, x] = lat[y],
\* an S grid has the depth column 'depth' at every node
SearchGrids ==
    {[gtype |-> gt, lon |-> lo, lat |-> la, depth |-> de] :
        gt \in GTypes, lo \in Axes(2, 3), la \in LatAxes, de \in DepthAxes}
Coords == (0 - 1)..(MaxCoord + 1)

FLess(a, b) == a[1] * b[2] < b[1] * a[2]
\* 0 <= f and f <= 1
InUnit(f) == f[1] >= 0 /\ f[1] <= f[2]
Zero == <<0, 1>>
One == <<1, 1>>

SRes(xsi, eta, zeta, xi, yi, zi) ==
    [err |-> "none", xsi |-> xsi, eta |-> eta, zeta |-> zeta,
     xi |-> xi, yi |-> yi, zi |-> zi]
SErr(e) ==
    [err |-> e, xsi |-> Zero, eta |-> Zero, zeta |-> Zero,
     xi |-> 0, yi |-> 0, zi |-> 0]
VRes(zi, zeta) == [err |-> "none", zi |-> zi, zeta |-> zeta]
VErr(e) == [err |-> e, zi |-> 0, zeta |-> Zero]

\* the index of the level at or below z, the last cell for z beyond the axis
\* (lines 493-497 and 523-527)
LevelBelow(d, z) ==
    IF z >= d[Len(d)] THEN Len(d) - 2
    ELSE IF z >= d[1] THEN ArgMin(TimeLe(d, z)) - 1 ELSE 0

\* Field.depth_index(depth, lat, lon)
depth_index(d, z) ==
    IF z > d[Len(d)] THEN VErr("FieldSamplingError")
    ELSE IF \A i \in 1..Len(d) : d[i] <= z THEN VRes(Len(d) - 2, Zero)
    ELSE VRes(IndexBelow(TimeLe(d, z)), Zero)

\* Field.search_indices_vertical_z(z)
search_indices_vertical_z(d, z) ==
    LET zi == LevelBelow(d, z)
    IN  VRes(zi, Frac(z - PyIndex(d, zi), PyIndex(d, zi + 1) - PyIndex(d, zi)))

\* Field.search_indices_vertical_s(x, y, z, xi, yi, xsi, eta, tidx, time)
search_indices_vertical_s(d, z) ==
    LET zi == LevelBelow(d, z)
    IN  IF z < PyIndex(d, zi) \/ z > PyIndex(d, zi + 1)
        THEN VErr("FieldSamplingError")
        ELSE VRes(zi, Frac(z - PyIndex(d, zi), PyIndex(d, zi + 1) - PyIndex(d, zi)))

\* lines 583-595 and 650-661: the vertical search of the grid's type, then the
\* three assertions
Vertical(g, zgrid, sgrid, z, xsi, eta, xi, yi) ==
    LET v == IF Len(g.depth) > 1
             THEN IF g.gtype = zgrid THEN search_indices_vertical_z(g.depth, z)
                  ELSE IF g.gtype = sgrid THEN search_indices_vertical_s(g.depth, z)
                  ELSE VErr("UnboundLocalError")
             ELSE VRes(0, Zero)
    IN  IF v.err # "none" THEN SErr(v.err)
        ELSE IF ~(InUnit(xsi) /\ InUnit(eta) /\ InUnit(v.zeta))
        THEN SErr("AssertionError")
        ELSE SRes(xsi, eta, v.zeta, xi, yi, v.zi)

\* the cell index on one axis of a flat mesh (lines 554-559 and 575-581)
CellBelow(ax, x) ==
    IF \A i \in 1..Len(ax) : ax[i] <= x THEN Len(ax) - 2
    ELSE IndexBelow(TimeLe(ax, x))
CellCoord(ax, i, x) ==
    Frac(x - PyIndex(ax, i), PyIndex(ax, i + 1) - PyIndex(ax, i))

\* search_indices_rectilinear without the tests of lines 552-553 and 573-574
search_indices_rectilinear_unchecked(g, x, y, z) ==
    LET xi == CellBelow(g.lon, x)
        yi == CellBelow(g.lat, y)
    IN  Vertical(g, "RectilinearZGrid", "RectilinearSGrid", z,
                 CellCoord(g.lon, xi, x), CellCoord(g.lat, yi, y), xi, yi)

\* Field.search_indices_rectilinear(x, y, z, tidx, time), mesh 'flat'
search_indices_rectilinear(g, x, y, z) ==
    IF x < g.lon[1] \/ x > g.lon[Len(g.lon)] THEN SErr("FieldSamplingError")
    ELSE IF y < g.lat[1] \/ y > g.lat[Len(g.lat)] THEN SErr("FieldSamplingError")
    ELSE LET xi == CellBelow(g.lon, x)
             yi == CellBelow(g.lat, y)
         IN  Vertical(g, "RectilinearZGrid", "RectilinearSGrid", z,
                      CellCoord(g.lon, xi, x), CellCoord(g.lat, yi, y), xi, yi)

\* Field.fix_i_index(xi, dim, sphere_mesh) on a flat mesh
fix_i_index(xi, dim) ==
    LET a == IF xi < 0 THEN 0 ELSE xi
    IN  IF a > dim - 2 THEN dim - 2 ELSE a

RECURSIVE CellSearch(_, _, _, _, _)
\* the loop of search_indices_curvilinear (lines 608-648) over cells that are
\* rectangles (abs(aa) < 1e-12); a search that stays in one cell without
\* finding the point ends at maxIterSearch
CellSearch(g, x, y, xi, yi) ==
    IF xi + 1 >= Len(g.lon) \/ yi + 1 >= Len(g.lat) THEN SErr("IndexError")
    ELSE
      LET xsi == CellCoord(g.lon, xi, x)
          eta == CellCoord(g.lat, yi, y)
          xi1 == fix_i_index(IF FLess(xsi, Zero) THEN xi - 1
                             ELSE IF FLess(One, xsi) THEN xi + 1 ELSE xi,
                             Len(g.lon))
          yi1 == fix_i_index(IF FLess(eta, Zero) THEN yi - 1
                             ELSE IF FLess(One, eta) THEN yi + 1 ELSE yi,
                             Len(g.lat))
      IN  IF FLess(xsi, Zero) /\ FLess(eta, Zero) /\ xi = 0 /\ yi = 0
          THEN SErr("FieldSamplingError")
          ELSE IF FLess(One, xsi) /\ FLess(One, eta)
                  /\ xi = Len(g.lon) - 1 /\ yi = Len(g.lat) - 1
          THEN SErr("FieldSamplingError")
          ELSE IF InUnit(xsi) /\ InUnit(eta) THEN SRes(xsi, eta, Zero, xi1, yi1, 0)
          ELSE IF xi1 = xi /\ yi1 = yi THEN SErr("FieldSamplingError")
          ELSE CellSearch(g, x, y, xi1, yi1)

\* Field.search_indices_curvilinear(x, y, z, xi, yi, tidx, time)
search_indices_curvilinear(g, x, y, z, xi, yi) ==
    LET c == CellSearch(g, x, y, xi, yi)
    IN  IF c.err # "none" THEN c
        ELSE Vertical(g, "CurvilinearZGrid", "CurvilinearSGrid", z,
                      c.xsi, c.eta, c.xi, c.yi)

\* Field.search_indices(x, y, z, xi, yi, tidx, time)
search_indices(g, x, y, z, xi, yi) ==
    IF g.gtype = "RectilinearSGrid" THEN search_indices_rectilinear(g, x, y, z)
    ELSE search_indices_curvilinear(g, x, y, z, xi, yi)

\* interpolator2D_scipy(...)((y, x)): NaN outside the axes
ScipyInside(g, x, y) ==
    /\ x >= g.lon[1] /\ x <= g.lon[Len(g.lon)]
    /\ y >= g.lat[1] /\ y <= g.lat[Len(g.lat)]

\* Field.interpolator3D_rectilinear_z(idx, z, y, x), followed by the NaN test
\* of spatial_interpolation (lines 741-743)
interpolator3D_rectilinear_z(g, x, y, z) ==
    LET zdx == depth_index(g.depth, z)
    IN  IF zdx.err # "none" THEN zdx.err
        ELSE IF z < PyIndex(g.depth, zdx.zi) \/ z > PyIndex(g.depth, zdx.zi + 1)
        THEN "FieldSamplingError"
        ELSE IF ~ScipyInside(g, x, y) THEN "FieldSamplingError"
        ELSE "value"

\* Field.spatial_interpolation(tidx, z, y, x, time): the error raised, or
\* "value" when a value is returned
spatial_interpolation(g, x, y, z) ==
    IF g.gtype = "RectilinearZGrid"
    THEN IF Len(g.depth) = 1
         THEN IF ScipyInside(g, x, y) THEN "value" ELSE "FieldSamplingError"
         ELSE interpolator3D_rectilinear_z(g, x, y, z)
    ELSE IF Len(g.depth) = 1
         THEN search_indices(g, x, y, z, 0, 0).err
         ELSE search_indices(g, x, y, z, Len(g.lon) \div 2, Len(g.lat) \div 2).err

SearchInit ==
    /\ DriverIdle
    /\ gset = NoPart
    /\ pfile = NoPart
    /\ \E g \in SearchGrids, x \in Coords, y \in Coords, z \in Coords :
          call = [op |-> "search", grid |-> g, x |-> x, y |-> y, z |-> z,
                  fn |-> "init", res |-> SErr("none"), out |-> "none"]

\* field.search_indices_rectilinear(x, y, z) on a rectilinear grid
SearchCall ==
    /\ call.op = "search"
    /\ call.grid.gtype \in {"RectilinearZGrid", "RectilinearSGrid"}
    /\ call' = [call EXCEPT !.fn = "search_indices_rectilinear",
                   !.res = search_indices_rectilinear(call.grid, call.x, call.y, call.z),
                   !.out = "none"]
    /\ UNCHANGED <<driverVars, gset, pfile>>

\* the spatial part of field.eval(time, x, y, z)
SampleCall ==
    /\ call.op = "search"
    /\ call' = [call EXCEPT !.fn = "spatial_interpolation",
                   !.res = SErr("none"),
                   !.out = spatial_interpolation(call.grid, call.x, call.y, call.z)]
    /\ UNCHANGED <<driverVars, gset, pfile>>

SearchNext == SearchCall \/ SampleCall

SearchSpec == SearchInit /\ [][SearchNext]_vars

----------------------------------------------------------------------------
(* Periodic halo *)

\* a grid has 2..MaxDim nodes in each direction, a halo 0..MaxHalo points, and
\* add_periodic_halo is applied at most MaxApply times
MaxDim == 3
MaxHalo == 2
MaxApply == 2
HaloSizes == 0..MaxHalo
HaloFieldNames == <<"U", "V", "temp">>

\* a field's data along x is the sequence of its columns, along y of its rows;
\* column i of the data as constructed is called i, and x0, y0 are its sizes then
HaloField(g, grids) ==
    [grid |-> g, x0 |-> grids[g].xdim, y0 |-> grids[g].ydim,
     cols |-> [i \in 1..grids[g].xdim |-> i],
     rows |-> [i \in 1..grids[g].ydim |-> i]]

\* Grid.add_periodic_halo: the lon (lat) axis grows by halosize nodes at each end
GridHalo(g, zonal, meridional, halosize) ==
    [xdim |-> IF zonal THEN g.xdim + 2 * halosize ELSE g.xdim,
     ydim |-> IF meridional THEN g.ydim + 2 * halosize ELSE g.ydim]

\* np.concatenate((data[..., -halosize:], data, data[..., 0:halosize]))
Wrapped(s, halosize) ==
    PySlice(s, 0 - halosize, Len(s)) \o s \o PySlice(s, 0, halosize)

\* Field.add_periodic_halo(zonal, meridional, halosize), g the field's grid
FieldHalo(f, g, zonal, meridional, halosize) ==
    LET fz == IF zonal THEN [f EXCEPT !.cols = Wrapped(f.cols, halosize)] ELSE f
        fm == IF meridional THEN [fz EXCEPT !.rows = Wrapped(fz.rows, halosize)] ELSE fz
    IN  IF zonal /\ Len(fz.cols) # g.xdim THEN [fld |-> fz, err |-> "AssertionError"]
        ELSE IF meridional /\ Len(fm.rows) # g.ydim
        THEN [fld |-> fm, err |-> "AssertionError"]
        ELSE [fld |-> fm, err |-> "none"]

RECURSIVE HaloFields(_, _, _, _, _, _)
\* the loop over the fields of the FieldSet (lines 286-288), from field i on
HaloFields(fields, i, grids, zonal, meridional, halosize) ==
    IF i > Len(fields) THEN [fields |-> fields, err |-> "none"]
    ELSE LET r == FieldHalo(fields[i], grids[fields[i].grid], zonal, meridional, halosize)
             fs == [fields EXCEPT ![i] = r.fld]
         IN  IF r.err # "none" THEN [fields |-> fs, err |-> r.err]
             ELSE HaloFields(fs, i + 1, grids, zonal, meridional, halosize)

\* FieldSet.add_periodic_halo(zonal, meridional, halosize)
add_periodic_halo(fs, zonal, meridional, halosize) ==
    LET grids == [i \in 1..Len(fs.grids) |->
                     GridHalo(fs.grids[i], zonal, meridional, halosize)]
        r == HaloFields(fs.fields, 1, grids, zonal, meridional, halosize)
    IN  [fs EXCEPT !.grids = grids, !.fields = r.fields, !.err = r.err,
                   !.before = fs.fields,
                   !.hist = Append(fs.hist, [zonal |-> zonal,
                                meridional |-> meridional, halosize |-> halosize])]

HaloInit ==
    /\ DriverIdle
    /\ pfile = NoPart
    /\ call = NoPart
    /\ \E grids \in UNION {[1..n -> [xdim : 2..MaxDim, ydim : 2..MaxDim]] : n \in 1..2},
          bind \in [1..Len(HaloFieldNames) -> 1..2] :
          /\ \A g \in 1..Len(grids) : \E i \in DOMAIN bind : bind[i] = g
          /\ \A i \in DOMAIN bind : bind[i] <= Len(grids)
          /\ LET fields == [i \in 1..Len(HaloFieldNames) |-> HaloField(bind[i], grids)]
             IN  gset = [op |-> "halo", grids |-> grids, fields |-> fields,
                         before |-> fields, hist |-> <<>>, err |-> "none"]

AddHalo(zonal, meridional, halosize) ==
    /\ gset.op = "halo"
    /\ gset.err = "none"
    /\ Len(gset.hist) < MaxApply
    /\ gset' = add_periodic_halo(gset, zonal, meridional, halosize)
    /\ UNCHANGED <<driverVars, pfile, call>>

HaloNext ==
    \E zonal \in BOOLEAN, meridional \in BOOLEAN, halosize \in HaloSizes :
        AddHalo(zonal, meridional, halosize)

HaloSpec == HaloInit /\ [][HaloNext]_vars

----------------------------------------------------------------------------
(* Advection kernels: AdvectionRK4 in floating point *)

\* a float has MantissaBits significant bits (53 for a Python float), rounded
\* to nearest, ties to even; exponents are unbounded (no overflow, no underflow)
MantissaBits == 6
\* a particle takes at most MaxSteps steps
MaxSteps == 2

RECURSIVE Pow2(_)
Pow2(k) == IF k = 0 THEN 1 ELSE 2 * Pow2(k - 1)

\* exact arithmetic on the numbers n/d
RAdd(a, b) == Frac(a[1] * b[2] + b[1] * a[2], a[2] * b[2])
RSub(a, b) == Frac(a[1] * b[2] - b[1] * a[2], a[2] * b[2])
RMul(a, b) == Frac(a[1] * b[1], a[2] * b[2])
RAbs(a) == <<Abs(a[1]), a[2]>>
RLe(a, b) == a[1] * b[2] <= b[1] * a[2]

RECURSIVE RoundPos(_, _)
\* the float nearest to n/d > 0
RoundPos(n, d) ==
    IF n >= Pow2(MantissaBits) * d
    THEN LET r == RoundPos(n, 2 * d) IN Frac(2 * r[1], r[2])
    ELSE IF n < Pow2(MantissaBits - 1) * d
    THEN LET r == RoundPos(2 * n, d) IN Frac(r[1], 2 * r[2])
    ELSE LET m == n \div d
             rem == n % d
         IN  IF 2 * rem > d \/ (2 * rem = d /\ m % 2 = 1) THEN <<m + 1, 1>>
             ELSE <<m, 1>>
\* the float nearest to the number q
Round(q) ==
    IF q[1] = 0 THEN Zero
    ELSE IF q[1] < 0
    THEN LET r == RoundPos(0 - q[1], q[2]) IN <<0 - r[1], r[2]>>
    ELSE RoundPos(q[1], q[2])
\* a + b, a * b and a / 6. in floating point
flAdd(a, b) == Round(RAdd(a, b))
flMul(a, b) == Round(RMul(a, b))
flDiv6(a) == Round(RMul(a, <<1, 6>>))
Two == <<2, 1>>

\* velocities with a full mantissa, and a few steps and positions
URange ==
    {Frac(m, Pow2(MantissaBits - 1)) :
        m \in Pow2(MantissaBits - 1)..(Pow2(MantissaBits) - 1)}
    \cup {Zero, <<0 - 3, 4>>}
VRange == {Zero, <<5, 8>>}
StepRange == {One, <<3, 1>>, <<0 - 1, 2>>}
LonRange == {Zero, <<5, 1>>, <<0 - 7, 2>>}
LatRange == {Zero, <<3, 2>>}
DepthRange == {Zero, <<10, 1>>}

\* AdvectionEE with half a step: the particle stops at (lon1, lat1)
AdvectionHalfStep(p, uv, h) ==
    [p EXCEPT !.lon = flAdd(p.lon, flMul(flMul(uv[1], <<1, 2>>), h)),
              !.lat = flAdd(p.lat, flMul(flMul(uv[2], <<1, 2>>), h))]

\* AdvectionRK4(particle, fieldset, time, dt) on a flow where
\* fieldset.UV[...] is uv at every time and position
AdvectionRK4(p, uv, h) ==
    LET Incr(w) ==
            flMul(flDiv6(flAdd(flAdd(flAdd(w, flMul(Two, w)), flMul(Two, w)), w)), h)
    IN  [p EXCEPT !.lon = flAdd(p.lon, Incr(uv[1])),
                  !.lat = flAdd(p.lat, Incr(uv[2]))]

Rk4Init ==
    /\ DriverIdle
    /\ gset = NoPart
    /\ pfile = NoPart
    /\ \E u \in URange, v \in VRange, h \in StepRange,
          lon \in LonRange, lat \in LatRange, depth \in DepthRange :
          LET p == [lon |-> lon, lat |-> lat, depth |-> depth]
          IN  call = [op |-> "rk4", uv |-> <<u, v>>, dt |-> h,
                      particle |-> p, before |-> p, steps |-> 0]

\* one call of the kernel
Rk4Step ==
    /\ call.op = "rk4"
    /\ call.steps < MaxSteps
    /\ call' = [call EXCEPT !.particle = AdvectionRK4(call.particle, call.uv, call.dt),
                            !.before = call.particle,
                            !.steps = call.steps + 1]
    /\ UNCHANGED <<driverVars, gset, pfile>>

Rk4Next == Rk4Step

Rk4Spec == Rk4Init /\ [][Rk4Next]_vars

----------------------------------------------------------------------------
(* Advection kernels: AdvectionRK45 *)

\* speeds are in units of 1e-10 per second and positions in units of
\* 1e-10 / RKUnit, RKUnit the common denominator of b4 and b5, so that the
\* weights of the two solutions are integers: b4 * RKUnit and b5 * RKUnit
RKUnit == 1128600
B4 == <<130625, 0, 619520, 604175, 0 - 225720, 0>>
B5 == <<133760, 0, 585728, 571220, 0 - 203148, 41040>>
\* tol[0] = 1e-9 as a position per second
Tol == 10 * RKUnit

\* the flow runs along one axis and depends on time only: the kernel's six
\* samples of fieldset.UV are the speeds w[1..6] along that axis
SpeedVals == {0, 10, 300}
Flows == [1..6 -> SpeedVals]
KernelDts == {0 - 2, 0 - 1, 0, 1, 2}
ParticleDts == {0 - 2, 1, 2}

\* particle.lon + (u1*b[0] + ... + u6*b[5]) * dt (lines 92-95)
Solution(x, b, w, h) ==
    x + (w[1] * b[1] + w[2] * b[2] + w[3] * b[3] + w[4] * b[4]
         + w[5] * b[5] + w[6] * b[6]) * h

\* math.sqrt(dx^2 + dy^2) for a difference along one axis
Kappa(dx, dy) == Abs(dx) + Abs(dy)

\* AdvectionRK45 that doubles particle.dt on every accepted step
AdvectionRK45Eager(p, axis, w, h) ==
    LET wu == IF axis = "lon" THEN w ELSE [i \in 1..6 |-> 0]
        wv == IF axis = "lat" THEN w ELSE [i \in 1..6 |-> 0]
        lon_4th == Solution(p.lon, B4, wu, h)
        lat_4th == Solution(p.lat, B4, wv, h)
        kappa == Kappa(Solution(p.lon, B5, wu, h) - lon_4th,
                       Solution(p.lat, B5, wv, h) - lat_4th)
    IN  IF kappa <= Abs(h * Tol)
        THEN [particle |-> [p EXCEPT !.lon = lon_4th, !.lat = lat_4th,
                                     !.dt = RMul(p.dt, Two)],
              kappa |-> kappa, ret |-> "None"]
        ELSE [particle |-> [p EXCEPT !.dt = RMul(p.dt, <<1, 2>>)],
              kappa |-> kappa, ret |-> "Repeat"]

\* AdvectionRK45(particle, fieldset, time, dt)
AdvectionRK45(p, axis, w, h) ==
    LET wu == IF axis = "lon" THEN w ELSE [i \in 1..6 |-> 0]
        wv == IF axis = "lat" THEN w ELSE [i \in 1..6 |-> 0]
        lon_4th == Solution(p.lon, B4, wu, h)
        lat_4th == Solution(p.lat, B4, wv, h)
        kappa == Kappa(Solution(p.lon, B5, wu, h) - lon_4th,
                       Solution(p.lat, B5, wv, h) - lat_4th)
    IN  IF kappa <= Abs(h * Tol)
        THEN [particle |-> [p EXCEPT !.lon = lon_4th, !.lat = lat_4th,
                                     !.dt = IF kappa <= Abs((h * Tol) \div 10)
                                            THEN RMul(p.dt, Two) ELSE p.dt],
              kappa |-> kappa, ret |-> "None"]
        ELSE [particle |-> [p EXCEPT !.dt = RMul(p.dt, <<1, 2>>)],
              kappa |-> kappa, ret |-> "Repeat"]

Rk45Init ==
    /\ DriverIdle
    /\ gset = NoPart
    /\ pfile = NoPart
    /\ \E w \in Flows, axis \in {"lon", "lat"}, h \in KernelDts, pdt \in ParticleDts :
          LET p == [lon |-> 7, lat |-> 0 - 3, depth |-> 5, dt |-> <<pdt, 1>>]
          IN  call = [op |-> "rk45", w |-> w, axis |-> axis, dt |-> h,
                      particle |-> p, before |-> p, kappa |-> 0, ret |-> "none"]

\* one call of the kernel
Rk45Step ==
    /\ call.op = "rk45"
    /\ call.ret = "none"
    /\ LET r == AdvectionRK45(call.particle, call.axis, call.w, call.dt)
       IN  call' = [call EXCEPT !.particle = r.particle, !.kappa = r.kappa,
                                !.ret = r.ret]
    /\ UNCHANGED <<driverVars, gset, pfile>>

Rk45Next == Rk45Step

Rk45Spec == Rk45Init /\ [][Rk45Next]_vars

----------------------------------------------------------------------------
(* Field.time_index of a periodic field in floating point *)

\* a - b and a / b in floating point
flSub(a, b) == Round(RSub(a, b))
flDiv(a, b) == Round(Frac(a[1] * b[2], a[2] * b[1]))
\* math.floor
Floor(q) == q[1] \div q[2]

\* time axes of two and three snapshots
PeriodicAxes ==
    {<<Zero, <<16, 1>>, <<32, 1>>>>, <<One, <<17, 1>>, <<33, 1>>>>,
     <<One, <<33, 1>>>>, <<<<0 - 4, 1>>, <<4, 1>>>>}

\* the floats between 2^-MantissaBits and 2^MantissaBits, of both signs, and 0
FloatTimes ==
    {Zero} \cup
    {Frac(s * m * Pow2(e), Pow2(2 * MantissaBits - 1)) :
        s \in {0 - 1, 1},
        m \in Pow2(MantissaBits - 1)..(Pow2(MantissaBits) - 1),
        e \in 0..(2 * MantissaBits - 1)}

\* self.grid.time <= time
FloatLe(t, tm) == [i \in 1..Len(t) |-> RLe(t[i], tm)]

\* Field.time_index(time) of a time-periodic field, lines 755-763; .time is the
\* time the index was looked up for
time_index_periodic(t, tm) ==
    LET T == Len(t)
        b == FloatLe(t, tm)
    IN  IF (\A i \in 1..T : b[i]) \/ (\A i \in 1..T : ~b[i])
        THEN LET P == flSub(t[T], t[1])
                 periods == Floor(flDiv(flSub(tm, t[1]), P))
                 reduced == flSub(tm, flMul(<<periods, 1>>, P))
             IN  [ti |-> IndexBelow(FloatLe(t, reduced)), periods |-> periods,
                  time |-> reduced]
        ELSE [ti |-> IndexBelow(b), periods |-> 0, time |-> tm]

PeriodicInit ==
    /\ DriverIdle
    /\ gset = NoPart
    /\ pfile = NoPart
    /\ \E t \in PeriodicAxes, tm \in FloatTimes :
          call = [op |-> "periodic", fn |-> "init", axis |-> t, time |-> tm,
                  res |-> [ti |-> 0, periods |-> 0, time |-> tm]]

\* field.time_index(time)
PeriodicCall ==
    /\ call.op = "periodic"
    /\ call.fn = "init"
    /\ call' = [call EXCEPT !.fn = "time_index",
                            !.res = time_index_periodic(call.axis, call.time)]
    /\ UNCHANGED <<driverVars, gset, pfile>>

PeriodicNext == PeriodicCall

PeriodicSpec == PeriodicInit /\ [][PeriodicNext]_vars

----------------------------------------------------------------------------
(* S grids with a 4-D depth: the depth column in time *)

\* the bottom depth of a snapshot; the surface level is at depth 0
BottomVals == {1, 3}

\* a field on an S grid with z4d set whose depth is the same at every node of a
\* snapshot: depth[k] is the column (surface, bottom) of snapshot k
Z4dFields ==
    {[time |-> t, depth |-> d, time_periodic |-> p, allow_time_extrapolation |-> e] :
        t \in TimeAxes, d \in UNION {[1..n -> BottomVals] : n \in 1..MaxT},
        p \in BOOLEAN, e \in BOOLEAN}

Column(f, k) == <<Zero, <<PyIndex(f.depth, k), 1>>>>

\* search_indices_vertical_s, lines 503-516: the depth column for time index
\* tidx and time tm; the four weights of the cell add up to 1
depth_vector(f, tidx, tm) ==
    IF tidx = Len(f.time) - 1 THEN Column(f, 0 - 1)
    ELSE LET dv0 == Column(f, tidx)
             dv1 == Column(f, tidx + 1)
             t0 == PyIndex(f.time, tidx)
             t1 == PyIndex(f.time, tidx + 1)
         IN  [l \in 1..2 |->
                RAdd(dv0[l], RMul(RSub(dv1[l], dv0[l]), Frac(tm - t0, t1 - t0)))]

\* the calls of spatial_interpolation made by Field.eval (lines 790-802), each
\* with the time index and the time it hands on to search_indices_vertical_s
SpatialCalls(f, time0) ==
    LET t == f.time
        T == Len(t)
        r == time_index(f, time0)
        tm == time0 - r.periods * (t[T] - t[1])
    IN  IF r.err # "none" THEN <<>>
        ELSE IF r.ti < T - 1 /\ tm > PyIndex(t, r.ti)
        THEN <<[tidx |-> r.ti, time |-> tm], [tidx |-> r.ti + 1, time |-> tm]>>
        ELSE <<[tidx |-> r.ti, time |-> PyIndex(t, r.ti - 1)]>>

\* the sample time after the periods are taken off (line 791)
ReducedTime(f, time0) ==
    LET r == time_index(f, time0)
    IN  time0 - r.periods * (f.time[Len(f.time)] - f.time[1])

Z4dInit ==
    /\ DriverIdle
    /\ gset = NoPart
    /\ pfile = NoPart
    /\ \E f \in Z4dFields :
          /\ Len(f.depth) = Len(f.time)
          /\ f.time_periodic => ~f.allow_time_extrapolation
          /\ f.time_periodic => Len(f.time) >= 2
          /\ call = [op |-> "z4d", fn |-> "init", fld |-> f, time |-> 0,
                     reduced |-> 0, cols |-> <<>>]

\* field.eval(time, x, y, z): the depth columns it searches
Z4dEval(tm) ==
    /\ call.op = "z4d"
    /\ call.fn = "init"
    /\ call' = [call EXCEPT
                  !.fn = "eval", !.time = tm,
                  !.reduced = ReducedTime(call.fld, tm),
                  !.cols = LET sc == SpatialCalls(call.fld, tm)
                           IN  [i \in 1..Len(sc) |->
                                  [tidx |-> sc[i].tidx,
                                   col |-> depth_vector(call.fld, sc[i].tidx,
                                                        sc[i].time)]]]
    /\ UNCHANGED <<driverVars, gset, pfile>>

Z4dNext == \E tm \in SampleTimes : Z4dEval(tm)

Z4dSpec == Z4dInit /\ [][Z4dNext]_vars

----------------------------------------------------------------------------
(* Field sampling in space: the curvilinear cell walk, step by step *)

\* stands for maxIterSearch = 1e6 (line 606)
MaxIterSearch == 3

\* the indices the search starts from: interpolator2D (lines 672-673) and
\* interpolator3D (lines 689-690)
WalkStart(lon, lat, threeD) ==
    IF threeD THEN <<Len(lon) \div 2, Len(lat) \div 2>> ELSE <<0, 0>>

\* search_indices_curvilinear before the loop (lines 600-607): xsi = eta = -1
NewWalk(lon, lat, x, y, threeD) ==
    [op |-> "walk", lon |-> lon, lat |-> lat, x |-> x, y |-> y,
     xi |-> WalkStart(lon, lat, threeD)[1], yi |-> WalkStart(lon, lat, threeD)[2],
     xsi |-> <<0 - 1, 1>>, eta |-> <<0 - 1, 1>>,
     cxi |-> 0, cyi |-> 0, looked |-> FALSE, it |-> 0, res |-> "searching"]

\* one pass through the body of the loop (lines 609-648) over a cell that is a
\* rectangle; cxi, cyi is the cell the pass looked at, 'looked' that there
\* has been a pass
WalkIteration(w) ==
    IF w.xi + 1 >= Len(w.lon) \/ w.yi + 1 >= Len(w.lat)
    THEN [w EXCEPT !.res = "IndexError"]
    ELSE
      LET xsi == CellCoord(w.lon, w.xi, w.x)
          eta == CellCoord(w.lat, w.yi, w.y)
          w1  == [w EXCEPT !.xsi = xsi, !.eta = eta, !.cxi = w.xi, !.cyi = w.yi,
                           !.looked = TRUE]
          xi1 == fix_i_index(IF FLess(xsi, Zero) THEN w.xi - 1
                             ELSE IF FLess(One, xsi) THEN w.xi + 1 ELSE w.xi,
                             Len(w.lon))
          yi1 == fix_i_index(IF FLess(eta, Zero) THEN w.yi - 1
                             ELSE IF FLess(One, eta) THEN w.yi + 1 ELSE w.yi,
                             Len(w.lat))
      IN  IF FLess(xsi, Zero) /\ FLess(eta, Zero) /\ w.xi = 0 /\ w.yi = 0
          THEN [w1 EXCEPT !.res = "FieldSamplingError"]
          ELSE IF FLess(One, xsi) /\ FLess(One, eta)
                  /\ w.xi = Len(w.lon) - 1 /\ w.yi = Len(w.lat) - 1
          THEN [w1 EXCEPT !.res = "FieldSamplingError"]
          ELSE [w1 EXCEPT !.xi = xi1, !.yi = yi1, !.it = w.it + 1,
                          !.res = IF w.it + 1 > MaxIterSearch
                                  THEN "FieldSamplingError"
                                  ELSE IF InUnit(xsi) /\ InUnit(eta) THEN "found"
                                  ELSE "searching"]

WalkInit ==
    /\ DriverIdle
    /\ gset = NoPart
    /\ pfile = NoPart
    /\ \E lon \in Axes(2, 3), lat \in LatAxes, x \in Coords, y \in Coords,
          threeD \in BOOLEAN :
          call = NewWalk(lon, lat, x, y, threeD)

\* the loop of line 608 runs its body once more
WalkStep ==
    /\ call.op = "walk"
    /\ call.res = "searching"
    /\ call' = WalkIteration(call)
    /\ UNCHANGED <<driverVars, gset, pfile>>

WalkNext == WalkStep

WalkSpec == WalkInit /\ [][WalkNext]_vars

----------------------------------------------------------------------------
(* Claims *)

\* the window a field holds when it is in step with its grid
WindowOf(f, ti) == PySlice(Backing(f), ti, ti + 3)

\* C1: in one computeChunk call the window of a grid moves by at most one
\* snapshot, however many fields are bound to the grid, and every field bound
\* to a grid that moved has its data shifted in that call, so that no field of
\* the grid still holds the old slices.
C1_SharedGridAdvancesOnce ==
    [][\A f \in FieldNames :
          LET g == GridOf(f)
          IN  /\ timeInd'[g] - timeInd[g] \in {0 - 1, 0, 1}
              /\ timeInd'[g] # timeInd[g] =>
                    /\ fdata'[f] # fdata[f]
                    /\ fdata'[f] = WindowOf(f, timeInd'[g])]_vars

\* C2: for a lazily backed grid, whatever computeChunk calls execute issues,
\* timeInd stays in -1 .. Tfull-3 and grid.time has exactly three entries.
C2_WindowStaysInRange ==
    lazy => \A g \in Grids :
               /\ timeInd[g] \in (0 - 1)..(Len(TimeFull(g)) - 3)
               /\ Len(gtime[g]) = 3

\* execute got past its argument checks and resolved _starttime
Started == ~IsNaN(starttime)
\* nothing has been dropped from the log
LogWhole == Len(log) < MaxLog

IsRelease(e) == e.ev = "release"
IsKernel(e) == e.ev = "kernel"
IsTickWrite(e) == e.ev \in {"write_first", "write_tick"}
Releases == SelectSeq(log, IsRelease)
Kernels == SelectSeq(log, IsKernel)
TickWrites == SelectSeq(log, IsTickWrite)

\* the particles the constructor was given all start at _starttime
AllStartAtStartTime ==
    \A i \in 1..Len(particles) :
        particles[i].born = None => (IsNaN(particles[i].t0) \/ particles[i].t0 = starttime)

\* C3: with repeatdt = R > 0 and a call with dt # 0 whose particles all start at
\* start_time, the cohorts injected so far are exactly those of the times
\* start_time + k*R*sign(dt), k = 1, 2, ..., one cohort each and in this order,
\* none of them beyond end_time and none at any other time; a cohort has one
\* particle for each stored position, built with the injection time; in a run
\* that advances next_release is R past the last injection, and when execute
\* returns no such time up to end_time is left.
C3_PeriodicRelease ==
    (Started /\ Truthy(repeatdt) /\ args.dt # 0 /\ AllStartAtStartTime /\ LogWhole) =>
        LET R == repeatdt * sign(args.dt)
            n == NRepeat(particles)
        IN  /\ \A k \in 1..Len(Releases) :
                  /\ Releases[k].t = starttime + k * R
                  /\ Releases[k].n = n
                  /\ sign(args.dt) * Releases[k].t <= sign(args.dt) * endtime
                  /\ \A src \in 1..n :
                        Cardinality({i \in 1..Len(particles) :
                            /\ particles[i].born = Releases[k].t
                            /\ particles[i].src = src
                            /\ particles[i].t0 = Releases[k].t}) = 1
            /\ Len(particles) = n * (Len(Releases) + 1)
            /\ dt # 0 => next_prelease = starttime + (Len(Releases) + 1) * R
            /\ pc = "done" => sign(args.dt) * next_prelease > sign(args.dt) * endtime

\* the place of an event in one pass of the loop body as the code orders it
Rank(ev) ==
    CASE ev = "write_first" -> 1
      [] ev = "show_first"  -> 2
      [] ev = "chunk_first" -> 3
      [] ev = "kernel"      -> 4
      [] ev = "release"     -> 5
      [] ev = "chunk"       -> 6
      [] ev = "write_tick"  -> 7
      [] ev = "show"        -> 8
      [] ev = "write_final" -> 9

\* log entries i < j belong to the same pass of the loop body
SamePass(i, j) == \A m \in (i + 1)..j : log[m].ev # "kernel"

\* a kernel has been executed after the cohort of event time t was released
SteppedSince(t) ==
    \E i \in 1..Len(log), j \in 1..Len(log) :
        i < j /\ log[i].ev = "release" /\ log[i].t = t /\ log[j].ev = "kernel"

\* a released particle has been integrated exactly if a pass of the loop body
\* began after its release
CohortWaitsForNextStep ==
    \A i \in 1..Len(particles) :
        particles[i].born # None =>
            (particles[i].stepped <=> SteppedSince(particles[i].born))

\* C4 as stated: the output of a tick that is also a release tick is written
\* before the cohort is added, and a released cohort is first integrated in
\* the following step.
C4_OutputBeforeRelease ==
    LogWhole =>
        /\ \A i \in 1..Len(log), j \in 1..Len(log) :
              (log[i].ev = "release" /\ log[j].ev = "write_tick"
                 /\ log[i].t = log[j].t) => j < i
        /\ CohortWaitsForNextStep

\* C4 as amended: one pass of the loop body integrates, then releases, then
\* advances the chunks, then writes the output (then shows the movie frame), all
\* at the same event time; the output of a tick that is also a release tick is
\* written after the cohort is added and counts its particles; a released
\* cohort is first integrated in the following pass.
C4_ReleaseBeforeOutput ==
    LogWhole =>
        /\ \A i \in 1..(Len(log) - 1) :
              \/ log[i + 1].ev = "kernel" /\ log[i].ev # "write_final"
              \/ /\ Rank(log[i].ev) < Rank(log[i + 1].ev)
                 /\ log[i + 1].ev \in {"release", "chunk", "write_tick", "show"}
                        => log[i + 1].t = log[i].t
        /\ \A i \in 1..Len(log), j \in 1..Len(log) :
              (i < j /\ SamePass(i, j) /\ log[i].ev = "release"
                 /\ log[j].ev = "write_tick") =>
                    /\ log[i - 1].ev = "kernel"
                    /\ log[j].n = log[i - 1].n + log[i].n
        /\ CohortWaitsForNextStep

C4_Witness ==
    /\ pc = "done" /\ LogWhole
    /\ \E i \in 1..(Len(log) - 3) :
          /\ log[i].ev = "kernel" /\ log[i + 1].ev = "release"
          /\ log[i + 2].ev = "chunk" /\ log[i + 3].ev = "write_tick"
    /\ \E i \in 1..Len(particles) : particles[i].born # None /\ particles[i].stepped

\* C5: for a call with dt # 0 and an output file of interval D > 0, the writes
\* requested before and inside the loop are the one at start_time followed by
\* those at start_time + k*D*sign(dt), k = 1, 2, ..., one each and in this
\* order, none beyond end_time; in a run that advances next_output is D*sign(dt)
\* past the last of them, and when execute returns no tick up to end_time is
\* left.
C5_OutputTicks ==
    (Started /\ outfile /\ outputdt > 0 /\ args.dt # 0 /\ LogWhole) =>
        LET D == outputdt * sign(args.dt)
        IN  /\ Len(TickWrites) >= 1
            /\ TickWrites[1].ev = "write_first"
            /\ \A k \in 1..Len(TickWrites) :
                  /\ TickWrites[k].t = starttime + (k - 1) * D
                  /\ k > 1 => /\ TickWrites[k].ev = "write_tick"
                              /\ sign(args.dt) * TickWrites[k].t
                                    <= sign(args.dt) * endtime
            /\ dt # 0 => next_output = starttime + Len(TickWrites) * D
            /\ pc = "done" => sign(args.dt) * next_output > sign(args.dt) * endtime

\* the end time execute resolves at lines 297-300, before line 305
ResolvedEnd ==
    EndTime(args.runtime, args.endtime, args.dt, starttime,
            FieldInitTime(GridOf("U"), lazy))

\* the final write is the last thing execute does and carries the loop's time
FinalWriteAtLoopTime ==
    (pc = "done" /\ outfile /\ LogWhole) =>
        /\ log[Len(log)].ev = "write_final"
        /\ log[Len(log)].t = time

\* C6 as stated: after the loop a final write is requested at the loop's final
\* time, and that time is end_time whenever dt # 0 and end_time lies strictly
\* after start_time along sign(dt).
C6_FinalWriteAtEnd ==
    /\ FinalWriteAtLoopTime
    /\ (pc = "done" /\ args.dt # 0
          /\ sign(args.dt) * (ResolvedEnd - starttime) > 0) => time = ResolvedEnd

\* C6 as amended: ... whenever dt # 0 and end_time lies at least 1e-5 s after
\* start_time along sign(dt).
C6_FinalWriteAtDistantEnd ==
    /\ FinalWriteAtLoopTime
    /\ (pc = "done" /\ args.dt # 0
          /\ sign(args.dt) * (ResolvedEnd - starttime) >= degenerate_tol)
            => time = ResolvedEnd

C6_Witness ==
    /\ pc = "done" /\ outfile /\ LogWhole
    /\ args.dt # 0
    /\ sign(args.dt) * (ResolvedEnd - starttime) >= degenerate_tol
    /\ log[Len(log)].ev = "write_final" /\ log[Len(log)].t = ResolvedEnd
    /\ Len(Kernels) >= 2

\* C7: a call with dt # 0 whose arguments pass the checks ends: the loop is left
\* or an error aborts the run.
C7_LoopTerminates == (pc = "loop" /\ dt # 0) ~> (pc \in {"done", "error"})

\* C8: a run with dt = 0, runtime = 0 or |end_time - start_time| < 1e-5 executes
\* the kernel exactly once, at event time start_time, and its final output is
\* written at start_time.
C8_DegenerateRunsOnce ==
    (pc = "done" /\ dt = 0 /\ LogWhole) =>
        /\ Len(Kernels) = 1
        /\ Kernels[1].t = starttime
        /\ time = starttime
        /\ outfile => /\ log[Len(log)].ev = "write_final"
                      /\ log[Len(log)].t = starttime

\* C9: a call with both runtime and endtime fails, and before it fails no kernel
\* has run, no cohort has been released, no chunk has been loaded and nothing
\* has been written.
C9_BothGivenFailsFirst ==
    (args.runtime # None /\ args.endtime # None) =>
        /\ pc = "error"
        /\ log = <<>>
        /\ timeInd = [g \in Grids |-> FieldInitTimeInd(lazy)]
        /\ fdata = [f \in FieldNames |-> FieldInitData(f, lazy)]
        /\ \A i \in 1..Len(particles) :
              particles[i].born = None /\ ~particles[i].stepped

C9_Witness ==
    /\ pc = "error"
    /\ args.runtime = 4 /\ args.endtime = 3
    /\ ArgsAccepted(args.runtime, args.outputdt, args.moviedt)
    /\ \E i \in 1..Len(particles) : IsNaN(particles[i].t0) /\ ~IsNaN(particles[i].time)

\* the time a particle of the constructor starts from: its own, or the first
\* (dt >= 0) or last snapshot time of U when it has none
StartOf(p) ==
    IF ~IsNaN(p.t0) THEN p.t0
    ELSE IF args.dt >= 0 THEN TimeFull(GridOf("U"))[1]
    ELSE TimeFull(GridOf("U"))[Len(TimeFull(GridOf("U")))]

\* C10: start_time is the least (dt >= 0) or the greatest (dt < 0) particle
\* time, a particle without a time counting with the first (dt >= 0) or the
\* last snapshot time of U, which it is given; with runtime given, end_time is
\* start_time + runtime*sign(dt) (in a run that advances).
C10_StartAndEnd ==
    Started =>
        LET own == {i \in 1..Len(particles) : particles[i].born = None}
        IN  /\ \E i \in own : starttime = StartOf(particles[i])
            /\ \A i \in own :
                  /\ args.dt >= 0 => starttime <= StartOf(particles[i])
                  /\ args.dt < 0 => starttime >= StartOf(particles[i])
                  /\ ~particles[i].stepped => particles[i].time = StartOf(particles[i])
            /\ (args.runtime # None /\ dt # 0) =>
                  endtime = starttime + args.runtime * sign(args.dt)

\* the FieldSet is complete
Constructed == gset.op = "fieldset" /\ Len(gset.fields) = Len(AddOrder)

\* C11: after FieldSet construction two fields whose grids have the same
\* geometry refer to one grid object, fields whose grids differ refer to
\* distinct grid objects, every field's grid is a grid of the gridset, and the
\* gridset holds as many grids as there are distinct geometries.
C11_GridsDeduplicated ==
    Constructed =>
        /\ \A f1 \in FieldNames, f2 \in FieldNames :
              (gset.geom[gset.given[f1]] = gset.geom[gset.given[f2]])
                  <=> (gset.grid[f1] = gset.grid[f2])
        /\ \A f \in FieldNames :
              /\ \E i \in 1..Len(gset.grids) : gset.grids[i] = gset.grid[f]
              /\ gset.geom[gset.grid[f]] = gset.geom[gset.given[f]]
        /\ Len(gset.grids) =
              Cardinality({gset.geom[gset.given[f]] : f \in FieldNames})

\* test_avoid_repeated_grids: U on grid_0, V on grid_1, temp on a grid of its own
\* with the geometry of grid_0
C11_Witness ==
    /\ Constructed
    /\ gset.given = [f \in FieldNames |-> CASE f = "U" -> 1 [] f = "V" -> 2
                                            [] f = "temp" -> 3]
    /\ gset.geom[1] = gset.geom[3] /\ gset.geom[1] # gset.geom[2]
    /\ Len(gset.grids) = 2
    /\ gset.grid["U"] = 1 /\ gset.grid["temp"] = 1 /\ gset.grid["V"] = 2

\* the last thing done with the file was a write that was not skipped as a
\* repetition of the time written last
Wrote == pfile.op = "file" /\ pfile.last.call = "write" /\ pfile.last.res # "skipped"

\* C12: in array mode a write of a non-empty set aborts the run exactly if the
\* largest id of the set exceeds the largest id recorded when the file was
\* opened, whatever the order of the ids then.
C12_FailsIffIdBeyondMax ==
    (Wrote /\ Len(pfile.pset) > 0) =>
        (pfile.last.res = "exit" <=> SeqMax(pfile.pset, 1) > SeqMax(pfile.id, 1))

\* C13: in array mode a write after a particle was added whose id is at most the
\* largest id recorded when the file was opened fails; it does not complete.
C13_AddedLowIdFails ==
    (Wrote /\ \E p \in pfile.added : p <= SeqMax(pfile.id, 1)) =>
        pfile.last.res \in {"exit", "raised"}


C15_TimeIndex ==
    (call.op = "field" /\ call.fn = "time_index" /\ ~call.fld.time_periodic) =>
        LET t == call.fld.time
            T == Len(t)
            outside == call.time < t[1] \/ call.time > t[T]
        IN  IF ~call.fld.allow_time_extrapolation /\ outside
            THEN call.idx.err = "TimeExtrapolationError"
            ELSE /\ call.idx.err = "none"
                 /\ call.idx.periods = 0
                 /\ call.idx.ti \in 0..(T - 1)
                 /\ IF call.time < t[1] THEN call.idx.ti = 0
                    ELSE /\ t[call.idx.ti + 1] <= call.time
                         /\ \A i \in 1..T : t[i] <= call.time => i - 1 <= call.idx.ti

\* a time strictly between the last two snapshots of an uneven axis
C15_Witness ==
    /\ call.op = "field" /\ call.fn = "time_index" /\ ~call.fld.time_periodic
    /\ call.fld.allow_time_extrapolation
    /\ call.fld.time = <<0, 1, 3>>
    /\ call.time = 2
    /\ call.idx = NoErr(1, 0)


\* the sampled point is within the horizontal axes of the grid
InsideHorizontal ==
    /\ call.x >= call.grid.lon[1] /\ call.x <= call.grid.lon[Len(call.grid.lon)]
    /\ call.y >= call.grid.lat[1] /\ call.y <= call.grid.lat[Len(call.grid.lat)]
\* the sampled depth is within the depth axis of the grid
InsideVertical ==
    /\ call.z >= call.grid.depth[1]
    /\ call.z <= call.grid.depth[Len(call.grid.depth)]

\* C16: sampling a field at a depth outside the depth axis of its grid raises
\* FieldSamplingError, for each of the four grid types with more than one
\* depth level; no assertion fails and no value is returned.
C16_DepthOutsideIsOutOfBounds ==
    (call.op = "search" /\ call.fn = "spatial_interpolation"
        /\ Len(call.grid.depth) > 1 /\ ~InsideVertical)
        => call.out = "FieldSamplingError"

\* C17, as claimed: on a flat rectilinear grid the search raises
\* FieldSamplingError exactly if x or y is outside its axis, and otherwise
\* returns the cell (xi, yi) that holds the point with xsi, eta and zeta in [0, 1].
C17_SearchFailsIffOutsideHorizontal ==
    (call.op = "search" /\ call.fn = "search_indices_rectilinear") =>
        IF ~InsideHorizontal THEN call.res.err = "FieldSamplingError"
        ELSE /\ call.res.err = "none"
             /\ call.res.xi = CellBelow(call.grid.lon, call.x)
             /\ call.res.yi = CellBelow(call.grid.lat, call.y)

\* C17, amended: the same for a depth within the depth axis of the grid: the
\* search raises FieldSamplingError exactly if x or y is outside its axis, and
\* otherwise returns xi, the largest i with lon[i] <= x, at most X-2 (yi
\* likewise), with lon[xi] <= x <= lon[xi+1] and xsi, eta, zeta in [0, 1].
C17_SearchRectilinear ==
    (call.op = "search" /\ call.fn = "search_indices_rectilinear" /\ InsideVertical) =>
        LET lon == call.grid.lon
            lat == call.grid.lat
            r == call.res
            Largest(ax, v, i) ==
                /\ i \in 0..(Len(ax) - 2)
                /\ ax[i + 1] <= v /\ v <= ax[i + 2]
                /\ \A j \in 1..(Len(ax) - 1) : ax[j] <= v => j - 1 <= i
        IN  IF ~InsideHorizontal THEN r.err = "FieldSamplingError"
            ELSE /\ r.err = "none"
                 /\ Largest(lon, call.x, r.xi)
                 /\ Largest(lat, call.y, r.yi)
                 /\ InUnit(r.xsi) /\ InUnit(r.eta) /\ InUnit(r.zeta)

\* a point on the last node of the lon axis and strictly inside a lat cell and
\* a depth cell
C17_Witness ==
    /\ call.op = "search" /\ call.fn = "search_indices_rectilinear"
    /\ call.grid.lon = <<0, 1, 3>> /\ call.x = 3
    /\ call.grid.lat = <<0, 2>> /\ call.y = 1
    /\ call.grid.depth = <<1, 3>> /\ call.z = 2
    /\ call.res = SRes(One, <<1, 2>>, <<1, 2>>, 1, 0, 0)


\* new is old with its last h entries put in front and its first h entries
\* put behind, n entries in all
Extended(old, new, h, n) ==
    /\ Len(new) = Len(old) + 2 * h
    /\ Len(new) = n
    /\ SubSeq(new, 1, h) = SubSeq(old, Len(old) - h + 1, Len(old))
    /\ SubSeq(new, Len(new) - h + 1, Len(new)) = SubSeq(old, 1, h)

\* the last application of add_periodic_halo, and whether every field was at
\* least as large as the halo before it
LastHalo == gset.hist[Len(gset.hist)]
ColsSuffice == \A i \in DOMAIN gset.before : Len(gset.before[i].cols) >= LastHalo.halosize
RowsSuffice == \A i \in DOMAIN gset.before : Len(gset.before[i].rows) >= LastHalo.halosize

\* C18: an application of add_periodic_halo(zonal=True, halosize=h) to fields
\* of x-size X >= h gives every field, fields on a shared grid included, the
\* x-size X + 2h of its grid, the old last h columns in front and the old first
\* h columns behind; two such applications give X + 4h; likewise for
\* meridional and rows.
C18_HaloExtends ==
    (gset.op = "halo" /\ Len(gset.hist) > 0) =>
        /\ (LastHalo.zonal /\ ColsSuffice) =>
              \A i \in DOMAIN gset.fields :
                  /\ Extended(gset.before[i].cols, gset.fields[i].cols,
                              LastHalo.halosize, gset.grids[gset.fields[i].grid].xdim)
                  /\ (Len(gset.hist) = 2 /\ gset.hist[1] = LastHalo) =>
                        Len(gset.fields[i].cols) = gset.fields[i].x0 + 4 * LastHalo.halosize
        /\ (LastHalo.meridional /\ RowsSuffice /\ (LastHalo.zonal => ColsSuffice)) =>
              \A i \in DOMAIN gset.fields :
                  /\ Extended(gset.before[i].rows, gset.fields[i].rows,
                              LastHalo.halosize, gset.grids[gset.fields[i].grid].ydim)
                  /\ (Len(gset.hist) = 2 /\ gset.hist[1] = LastHalo) =>
                        Len(gset.fields[i].rows) = gset.fields[i].y0 + 4 * LastHalo.halosize


\* the position a step of velocity w and length dt reaches from x in exact
\* arithmetic
ExactStep(x, w) == RAdd(x, RMul(w, call.dt))

\* x + w*dt as the floating-point arithmetic evaluates it
FloatStep(x, w) == flAdd(x, flMul(w, call.dt))

\* C19, as claimed: on a steady uniform flow one AdvectionRK4 step moves the
\* particle from (lon, lat) to exactly (lon + u*dt, lat + v*dt) and leaves its
\* depth unchanged.
C19_RK4ExactOnUniformFlow ==
    (call.op = "rk4" /\ call.steps > 0) =>
        /\ call.particle.lon = FloatStep(call.before.lon, call.uv[1])
        /\ call.particle.lat = FloatStep(call.before.lat, call.uv[2])
        /\ call.particle.depth = call.before.depth

\* x1 is the exact step from x0 up to rounding: it differs from x0 + w*dt by at
\* most eps * (|x0 + w*dt| + 7 * |w*dt|), eps = 2^-MantissaBits the unit roundoff
WithinRounding(x0, x1, w) ==
    LET e == ExactStep(x0, w)
        eps == <<1, Pow2(MantissaBits)>>
    IN  RLe(RAbs(RSub(x1, e)),
            RMul(eps, RAdd(RAbs(e), RMul(<<7, 1>>, RAbs(RMul(w, call.dt))))))

\* C19, amended: each AdvectionRK4 step on a steady uniform flow moves the
\* particle to (lon + u*dt, lat + v*dt) up to floating-point rounding and leaves
\* its depth unchanged.
C19_RK4UniformFlow ==
    (call.op = "rk4" /\ call.steps > 0) =>
        /\ WithinRounding(call.before.lon, call.particle.lon, call.uv[1])
        /\ WithinRounding(call.before.lat, call.particle.lat, call.uv[2])
        /\ call.particle.depth = call.before.depth

\* a second step that moved the particle, to a lon that is neither the exact
\* one nor the rounded one
C19_Witness ==
    /\ call.op = "rk4" /\ call.steps = 2
    /\ call.particle.lon # call.before.lon
    /\ call.particle.lon # ExactStep(call.before.lon, call.uv[1])
    /\ call.particle.lon # FloatStep(call.before.lon, call.uv[1])
    /\ WithinRounding(call.before.lon, call.particle.lon, call.uv[1])


\* the 4th-order solution along the axis of the flow, from the position before
Fourth(x, axis) ==
    IF call.axis = axis THEN Solution(x, B4, call.w, call.dt) ELSE x

\* C20: with kappa the error estimate, AdvectionRK45 accepts the step if
\* kappa <= |dt| * tol: the position becomes the 4th-order solution, particle.dt
\* is doubled exactly if kappa <= |dt| * tol / 10 and otherwise kept, and Repeat
\* is not returned; if kappa > |dt| * tol, particle.dt is halved, lon, lat and
\* depth are kept, and Repeat is returned.
C20_RK45Step ==
    (call.op = "rk45" /\ call.ret # "none") =>
        LET p == call.particle
            q == call.before
        IN  /\ p.depth = q.depth
            /\ IF call.kappa <= Abs(call.dt) * Tol
               THEN /\ call.ret = "None"
                    /\ p.lon = Fourth(q.lon, "lon") /\ p.lat = Fourth(q.lat, "lat")
                    /\ IF 10 * call.kappa <= Abs(call.dt) * Tol
                       THEN p.dt = RMul(q.dt, Two)
                       ELSE p.dt = q.dt
               ELSE /\ call.ret = "Repeat"
                    /\ p.lon = q.lon /\ p.lat = q.lat
                    /\ p.dt = RMul(q.dt, <<1, 2>>)

\* a step accepted with an error between a tenth of the tolerance and the
\* tolerance: the particle moved and its dt is kept
C20_Witness ==
    /\ call.op = "rk45" /\ call.ret = "None"
    /\ 10 * call.kappa > Abs(call.dt) * Tol
    /\ call.particle.lon # call.before.lon
    /\ call.particle.dt = call.before.dt


\* the last computeChunk call was the first one of the run, made for a time step
\* with a direction
AfterFirstChunk ==
    /\ lazy
    /\ Len(log) > 0
    /\ log[Len(log)].ev = "chunk_first"
    /\ dt # 0

\* the grids and fields after a call at time t that starts from the first
\* (signdt = 1) or the last three snapshots of every grid
FromFirstWindow(t, signdt) ==
    LET unset == ChunkState([g \in Grids |-> 0 - 1], gtime, advanced, fdata, NaN)
        cs1 == ChunkFirstCall(unset, signdt)
        cs2 == [cs1 EXCEPT !.adv = [g \in Grids |-> 0], !.next = FMul(Inf, signdt)]
    IN  ChunkFields(cs2, fieldOrder, 1, t, signdt)

\* C21: the first computeChunk call of a run over lazily backed fields sets every
\* grid's window to the first three snapshots (timeInd = 0) for sign_dt = +1 and
\* to the last three (timeInd = Tfull-3) for sign_dt = -1, and considers a shift
\* only from there.
C21_FirstCallSetsWindow ==
    AfterFirstChunk =>
        LET cs == FromFirstWindow(log[Len(log)].t, sign(dt))
        IN  /\ timeInd = cs.ti
            /\ gtime = cs.gt
            /\ fdata = cs.fd


\* the step is a computeChunk call of the loop over lazily backed fields, made
\* for a time step with a direction
ChunkCalled ==
    /\ pc = "chunk"
    /\ pc' # "chunk"
    /\ Due(time, next_input)
    /\ lazy
    /\ dt # 0

\* the window of grid g after the step is the window before it moved by k snapshots
WindowMoved(g, k) ==
    /\ timeInd'[g] = timeInd[g] + k
    /\ gtime'[g] = PySlice(TimeFull(g), timeInd[g] + k, timeInd[g] + k + 3)
    /\ Len(gtime'[g]) = 3
    /\ \A f \in FieldNames : GridOf(f) = g =>
          fdata'[f] = IF k = 1
                      THEN <<fdata[f][2], fdata[f][3],
                             PyIndex(Backing(f), timeInd[g] + 3)>>
                      ELSE IF k = 0 - 1
                      THEN <<PyIndex(Backing(f), timeInd[g] - 1),
                             fdata[f][1], fdata[f][2]>>
                      ELSE fdata[f]

\* C22: on a computeChunk call after initialisation a grid's window shifts right
\* by exactly one snapshot iff sign_dt = +1 and current_time > time[1], left by
\* exactly one iff sign_dt = -1 and current_time < time[1], and is unchanged
\* otherwise.
C22_ShiftRule ==
    [][ChunkCalled =>
          \A g \in Grids :
             IF dt > 0 /\ FGt(time, PyIndex(gtime[g], 1))
             THEN /\ IndexOk(Backing("U"), timeInd[g] + 3)
                  /\ WindowMoved(g, 1)
             ELSE IF dt < 0 /\ FLt(time, PyIndex(gtime[g], 1))
             THEN /\ IndexOk(Backing("U"), timeInd[g] - 1)
                  /\ WindowMoved(g, 0 - 1)
             ELSE WindowMoved(g, 0)]_vars


\* the step is a computeChunk call over lazily backed fields that returned: the
\* one made before the loop or one made in it
ChunkReturned ==
    /\ lazy
    /\ dt' # 0
    /\ \/ pc = "idle" /\ pc' = "loop"
       \/ ChunkCalled /\ pc' # "error"

\* the earliest window end (forward) or the latest window start (backward) of
\* the grids, in the state reached by the step
WindowBound ==
    IF dt' > 0 THEN PyMin([i \in 1..2 |-> PyIndex(gtime'[IF i = 1 THEN "g0" ELSE "g1"], 2)])
    ELSE PyMax([i \in 1..2 |-> PyIndex(gtime'[IF i = 1 THEN "g0" ELSE "g1"], 0)])

\* the event time handed to the kernel lies in the window of every grid, on the
\* side the run moves to
KernelInsideWindows ==
    (pc' = "kernel" /\ lazy /\ dt' # 0) =>
        \A g \in Grids :
            IF dt' > 0 THEN FGe(PyIndex(gtime'[g], 2), time')
            ELSE FGe(time', PyIndex(gtime'[g], 0))

\* C23: with lazily backed fields on several grids computeChunk returns the
\* minimum over the grids of time[2], taken after the shifts of the call, for a
\* forward run and the maximum of time[0] for a backward run, and the kernel is
\* never asked to integrate past the window end of any grid.
C23_NextChunkTime ==
    [][/\ ChunkReturned => next_input' = WindowBound
       /\ KernelInsideWindows]_vars

\* the kernel is about to run up to the end of the window of g0, which has moved,
\* while the window of g1 ends later
C23_Witness ==
    /\ lazy
    /\ pc = "kernel"
    /\ dt > 0
    /\ timeInd["g0"] = 1
    /\ time = next_input
    /\ time = PyIndex(gtime["g0"], 2)
    /\ FLt(time, PyIndex(gtime["g1"], 2))


\* C24: for a time-periodic field with at least two snapshots time_index returns
\* (idx, periods) with periods an integer, the reduced time
\* time - periods * (t[T-1] - t[0]) in [t[0], t[T-1]), and idx the largest index
\* whose snapshot time is <= the reduced time, so 0 <= idx <= T-2; for every
\* time, t[T-1] and times before t[0] included.
C24_PeriodicIndex ==
    (call.op = "periodic" /\ call.fn = "time_index") =>
        LET t == call.axis
            T == Len(t)
            r == call.res
            reduced == RSub(call.time, RMul(<<r.periods, 1>>, RSub(t[T], t[1])))
        IN  /\ r.periods \in Int
            /\ RLe(t[1], reduced)
            /\ ~RLe(t[T], reduced)
            /\ r.ti \in 0..(T - 2)
            /\ RLe(t[r.ti + 1], reduced)
            /\ \A i \in 1..T : RLe(t[i], reduced) => i - 1 <= r.ti


\* the depth column at time tm between the snapshots tidx and tidx + 1, the last
\* column for the last snapshot
ColumnAt(f, tidx, tm) ==
    IF tidx = Len(f.time) - 1 THEN Column(f, tidx)
    ELSE LET w == Frac(tm - f.time[tidx + 1], f.time[tidx + 2] - f.time[tidx + 1])
         IN  [l \in 1..2 |->
                RAdd(RMul(RSub(One, w), Column(f, tidx)[l]),
                     RMul(w, Column(f, tidx + 1)[l]))]

\* C25: on an S grid with a 4-D depth the depth column eval uses for time index
\* tidx is the linear interpolation at the sample time between the columns of
\* snapshots tidx and tidx+1 (the last column when tidx = T-1); when the sample
\* time is exactly t[tidx] it is the column of snapshot tidx.
C25_DepthColumnInTime ==
    (call.op = "z4d" /\ call.fn = "eval") =>
        \A i \in 1..Len(call.cols) :
            LET c == call.cols[i]
            IN  /\ c.col = ColumnAt(call.fld, c.tidx, call.reduced)
                /\ call.reduced = PyIndex(call.fld.time, c.tidx)
                      => c.col = Column(call.fld, c.tidx)


\* the last pass of the walk found the point below and left of the cell it
\* looked at (k = 0) or above and right of it (k = 1)
LeftThrough(k) ==
    IF k = 0 THEN FLess(call.xsi, Zero) /\ FLess(call.eta, Zero)
    ELSE FLess(One, call.xsi) /\ FLess(One, call.eta)

\* C26: the curvilinear cell walk keeps 0 <= xi <= xdim-2 and 0 <= yi <= ydim-2
\* after every step, ends at the latest when the iteration cap is exceeded, and
\* fails with FieldSamplingError at once, before the cap, when the point lies
\* beyond the first cell (xsi < 0 and eta < 0 at the lowest indices) or beyond
\* the last cell (xsi > 1 and eta > 1 at the highest indices).
C26_CellWalk ==
    (call.op = "walk" /\ call.looked) =>
        /\ call.it >= 1 => /\ call.xi \in 0..(Len(call.lon) - 2)
                           /\ call.yi \in 0..(Len(call.lat) - 2)
        /\ call.it <= MaxIterSearch + 1
        /\ call.res = "searching" => call.it <= MaxIterSearch
        /\ (call.cxi = 0 /\ call.cyi = 0 /\ LeftThrough(0))
              => (call.res = "FieldSamplingError" /\ call.it <= MaxIterSearch)
        /\ (call.cxi = Len(call.lon) - 2 /\ call.cyi = Len(call.lat) - 2
               /\ LeftThrough(1))
              => (call.res = "FieldSamplingError" /\ call.it <= MaxIterSearch)


\* the times handed to kernel.execute, in the order of the calls
KernelTimes == SelectSeq(log, IsKernel)

\* C27: during an execute over lazily backed fields with a time step forward,
\* whatever the start time within the time axis (later than the third snapshot
\* included), the event times handed to kernel.execute never decrease and are
\* never earlier than the start time; backward they never increase and are never
\* later than the start time.
C27_EventTimesMonotone ==
    (lazy /\ Started /\ dt # 0) =>
        LET k == KernelTimes
        IN  /\ \A i \in 1..Len(k) :
                 IF dt > 0 THEN FGe(k[i].t, starttime) ELSE FGe(starttime, k[i].t)
            /\ \A i \in 1..(Len(k) - 1) :
                 IF dt > 0 THEN FGe(k[i + 1].t, k[i].t) ELSE FGe(k[i].t, k[i + 1].t)


\* C28: after any sequence of computeChunk calls, forward, backward or one after
\* the other on the same FieldSet, the window of every lazily backed field is
\* the one of its grid: for k in 0..2, data[k] is backing[timeInd + k] and
\* grid.time[k] is timeFull[timeInd + k].
C28_WindowConsistent ==
    lazy =>
        \A f \in FieldNames :
            LET g == GridOf(f)
            IN  /\ timeInd[g] >= 0
                /\ timeInd[g] + 3 <= Len(TimeFull(g))
                /\ fdata[f] = WindowOf(f, timeInd[g])
                /\ gtime[g] = PySlice(TimeFull(g), timeInd[g], timeInd[g] + 3)


\* C29: in array mode, when particles have only been removed from the set since
\* the file was opened, a write stores the values of every remaining particle
\* in the row whose trajectory id is the particle's id, leaves the rows of the
\* removed particles without a value at that observation, and the observation
\* index advances by one with each recorded write.
C29_RowsFollowIds ==
    (Wrote /\ pfile.added = {}) =>
        /\ pfile.last.res \in {"recorded", "empty"}
        /\ pfile.idx = Len(pfile.obs)
        /\ \A r \in 1..Len(pfile.id) :
              pfile.obs[Len(pfile.obs)].row[r] =
                 IF pfile.id[r] \in SeqSet(pfile.pset) THEN pfile.id[r] ELSE 0


\* C30: a write called with the time of the recorded write before it records
\* nothing and leaves the observation index as it is, so that no two successive
\* recorded observations carry the same time; a write repeated at the end of
\* execute or at the start of the next execute call is such a write.
C30_RepeatedTimeSkipped ==
    [][\A t \in WriteTimes :
          FileWrite(t) =>
             /\ (Len(pfile.obs) > 0 /\ pfile.obs[Len(pfile.obs)].t = t)
                   => (pfile'.obs = pfile.obs /\ pfile'.idx = pfile.idx)
             /\ \A i \in 1..(Len(pfile'.obs) - 1) :
                   pfile'.obs[i].t # pfile'.obs[i + 1].t]_vars

\* a write at the time of the one recorded observation was skipped after a
\* particle had been removed
C30_Witness ==
    /\ pfile.op = "file"
    /\ pfile.last = [call |-> "write", res |-> "skipped"]
    /\ Len(pfile.obs) = 1
    /\ pfile.idx = 1
    /\ pfile.obs[1].t = pfile.lasttime_written
    /\ Len(pfile.pset) < Len(pfile.id)

====
